---- MODULE Spec2Model ----
(***************************************************************************)
(* Model of SimpleSQL (src/app.js), the in-memory SQL engine.              *)
(*                                                                         *)
(* A string is a sequence of one-character strings, so that the regular    *)
(* expressions and the character scanners of the engine are computed on    *)
(* the statement text character by character, as the code does.            *)
(***************************************************************************)
EXTENDS Integers, Sequences, FiniteSets, TLC

VARIABLES tables, lastQuery, outcome, prevTables, worksheet

vars == <<tables, lastQuery, outcome, prevTables, worksheet>>

(***************************************************************************)
(* Characters                                                              *)
(***************************************************************************)
UpperToLower ==
    ("A" :> "a") @@ ("B" :> "b") @@ ("C" :> "c") @@ ("D" :> "d") @@ ("E" :> "e") @@
    ("F" :> "f") @@ ("G" :> "g") @@ ("H" :> "h") @@ ("I" :> "i") @@ ("J" :> "j") @@
    ("K" :> "k") @@ ("L" :> "l") @@ ("M" :> "m") @@ ("N" :> "n") @@ ("O" :> "o") @@
    ("P" :> "p") @@ ("Q" :> "q") @@ ("R" :> "r") @@ ("S" :> "s") @@ ("T" :> "t") @@
    ("U" :> "u") @@ ("V" :> "v") @@ ("W" :> "w") @@ ("X" :> "x") @@ ("Y" :> "y") @@
    ("Z" :> "z")

DigitValue ==
    ("0" :> 0) @@ ("1" :> 1) @@ ("2" :> 2) @@ ("3" :> 3) @@ ("4" :> 4) @@
    ("5" :> 5) @@ ("6" :> 6) @@ ("7" :> 7) @@ ("8" :> 8) @@ ("9" :> 9)

\* UTF-16 code units of the characters the statements are written in; JS
\* compares two strings by code unit.
CharCode ==
    ("\t" :> 9) @@ ("\n" :> 10) @@ (" " :> 32) @@ ("!" :> 33) @@ ("'" :> 39) @@
    ("(" :> 40) @@ (")" :> 41) @@ ("*" :> 42) @@ ("+" :> 43) @@ ("," :> 44) @@
    ("-" :> 45) @@ ("." :> 46) @@
    ("0" :> 48) @@ ("1" :> 49) @@ ("2" :> 50) @@ ("3" :> 51) @@ ("4" :> 52) @@
    ("5" :> 53) @@ ("6" :> 54) @@ ("7" :> 55) @@ ("8" :> 56) @@ ("9" :> 57) @@
    (";" :> 59) @@ ("<" :> 60) @@ ("=" :> 61) @@ (">" :> 62) @@
    ("A" :> 65) @@ ("B" :> 66) @@ ("C" :> 67) @@ ("D" :> 68) @@ ("E" :> 69) @@
    ("F" :> 70) @@ ("G" :> 71) @@ ("H" :> 72) @@ ("I" :> 73) @@ ("J" :> 74) @@
    ("K" :> 75) @@ ("L" :> 76) @@ ("M" :> 77) @@ ("N" :> 78) @@ ("O" :> 79) @@
    ("P" :> 80) @@ ("Q" :> 81) @@ ("R" :> 82) @@ ("S" :> 83) @@ ("T" :> 84) @@
    ("U" :> 85) @@ ("V" :> 86) @@ ("W" :> 87) @@ ("X" :> 88) @@ ("Y" :> 89) @@
    ("Z" :> 90) @@ ("\\" :> 92) @@ ("_" :> 95) @@
    ("a" :> 97) @@ ("b" :> 98) @@ ("c" :> 99) @@ ("d" :> 100) @@ ("e" :> 101) @@
    ("f" :> 102) @@ ("g" :> 103) @@ ("h" :> 104) @@ ("i" :> 105) @@ ("j" :> 106) @@
    ("k" :> 107) @@ ("l" :> 108) @@ ("m" :> 109) @@ ("n" :> 110) @@ ("o" :> 111) @@
    ("p" :> 112) @@ ("q" :> 113) @@ ("r" :> 114) @@ ("s" :> 115) @@ ("t" :> 116) @@
    ("u" :> 117) @@ ("v" :> 118) @@ ("w" :> 119) @@ ("x" :> 120) @@ ("y" :> 121) @@
    ("z" :> 122)

IsUpper(c) == c \in DOMAIN UpperToLower
IsDigit(c) == c \in DOMAIN DigitValue
\* \s of a JS regular expression and the white space of String.trim
IsSpace(c) == c \in {" ", "\t", "\n"}
\* \w of a JS regular expression: [A-Za-z0-9_]
IsWordChar(c) == CharCode[c] \in (48..57) \cup (65..90) \cup (97..122) \cup {95}
\* . of a JS regular expression (no s flag): anything but a line terminator
IsDot(c) == c # "\n"

LowerChar(c) == IF IsUpper(c) THEN UpperToLower[c] ELSE c

\* String.prototype.toLowerCase
ToLowerCase(s) == [i \in 1..Len(s) |-> LowerChar(s[i])]

\* s.substring(i-1, j) of the code: the characters i..j (1-based, inclusive)
Sub(s, i, j) == IF i > j THEN <<>> ELSE SubSeq(s, i, j)

RECURSIVE SkipSpaces(_, _)
\* the position after the longest run of white space that starts at i
SkipSpaces(s, i) ==
    IF i <= Len(s) /\ IsSpace(s[i]) THEN SkipSpaces(s, i + 1) ELSE i

RECURSIVE SkipSpacesBack(_, _)
\* the position before the longest run of white space that ends at j
SkipSpacesBack(s, j) ==
    IF j >= 1 /\ IsSpace(s[j]) THEN SkipSpacesBack(s, j - 1) ELSE j

RECURSIVE SkipWord(_, _)
\* the position after the longest run of \w that starts at i
SkipWord(s, i) ==
    IF i <= Len(s) /\ IsWordChar(s[i]) THEN SkipWord(s, i + 1) ELSE i

RECURSIVE SkipDigits(_, _)
SkipDigits(s, i) ==
    IF i <= Len(s) /\ IsDigit(s[i]) THEN SkipDigits(s, i + 1) ELSE i

RECURSIVE SkipDots(_, _)
\* the position after the longest run of . (not a line terminator) from i
SkipDots(s, i) ==
    IF i <= Len(s) /\ IsDot(s[i]) THEN SkipDots(s, i + 1) ELSE i

\* String.prototype.trim
Trim(s) == Sub(s, SkipSpaces(s, 1), SkipSpacesBack(s, Len(s)))

\* a literal of a regular expression with the i flag, matched at position i
LitAt(s, i, lit) ==
    /\ i + Len(lit) - 1 <= Len(s)
    /\ \A k \in 1..Len(lit) : LowerChar(s[i + k - 1]) = lit[k]

\* String.prototype.startsWith
StartsWith(s, lit) ==
    /\ Len(lit) <= Len(s)
    /\ \A k \in 1..Len(lit) : s[k] = lit[k]

RECURSIVE SplitFrom(_, _, _, _)
\* String.prototype.split(sep) for a one-character separator: the pieces of
\* s[i..] with `from` the start of the piece being read
SplitFrom(s, sep, from, i) ==
    IF i > Len(s) THEN <<Sub(s, from, Len(s))>>
    ELSE IF s[i] = sep
         THEN <<Sub(s, from, i - 1)>> \o SplitFrom(s, sep, i + 1, i + 1)
         ELSE SplitFrom(s, sep, from, i + 1)

Split(s, sep) == SplitFrom(s, sep, 1, 1)

RECURSIVE SplitSpacesFrom(_, _)
\* String.prototype.split(/\s+/) of a trimmed, non-empty string
SplitSpacesFrom(s, i) ==
    IF i > Len(s) THEN <<>>
    ELSE LET RECURSIVE End(_)
             End(j) == IF j <= Len(s) /\ ~IsSpace(s[j]) THEN End(j + 1) ELSE j
             e == End(i)
         IN  <<Sub(s, i, e - 1)>> \o SplitSpacesFrom(s, SkipSpaces(s, e))

\* split(/\s+/) of a trimmed string: the empty string gives [""]
SplitSpaces(s) == IF s = <<>> THEN << <<>> >> ELSE SplitSpacesFrom(s, 1)


(***************************************************************************)
(* Scalars: the JS values a row holds.  A JS number is kept exactly, as    *)
(* the fraction n/d with d a power of ten and no trailing zero digit, so   *)
(* that parseInt("1") and parseFloat("1.0") are the same value, as in JS.  *)
(***************************************************************************)
Null == [k |-> "null"]
Bool(b) == [k |-> "bool", b |-> b]
Text(s) == [k |-> "text", s |-> s]

RECURSIVE Num(_, _)
Num(n, d) ==
    IF d > 1 /\ n % 10 = 0 THEN Num(n \div 10, d \div 10)
    ELSE [k |-> "number", n |-> n, d |-> d]

RECURSIVE Pow10(_)
Pow10(e) == IF e = 0 THEN 1 ELSE 10 * Pow10(e - 1)

RECURSIVE DigitsToNat(_, _, _, _)
\* the decimal value of the digits s[i..j], left to right from acc
DigitsToNat(s, i, j, acc) ==
    IF i > j THEN acc ELSE DigitsToNat(s, i + 1, j, 10 * acc + DigitValue[s[i]])

\* /^-?\d+$/.test(value)
IsIntegerLiteral(value) ==
    LET a == IF Len(value) >= 1 /\ value[1] = "-" THEN 2 ELSE 1
        e == SkipDigits(value, a)
    IN  e > a /\ e = Len(value) + 1

\* /^-?\d*\.\d+$/.test(value)
IsDecimalLiteral(value) ==
    LET a == IF Len(value) >= 1 /\ value[1] = "-" THEN 2 ELSE 1
        p == SkipDigits(value, a)
        e == SkipDigits(value, p + 1)
    IN  /\ p <= Len(value)
        /\ value[p] = "."
        /\ e > p + 1
        /\ e = Len(value) + 1

\* parseInt(value, 10) of a string that passed IsIntegerLiteral
ParseInt(value) ==
    IF value[1] = "-"
    THEN Num(0 - DigitsToNat(value, 2, Len(value), 0), 1)
    ELSE Num(DigitsToNat(value, 1, Len(value), 0), 1)

\* parseFloat(value) of a string that passed IsDecimalLiteral
ParseFloat(value) ==
    LET a == IF value[1] = "-" THEN 2 ELSE 1
        p == SkipDigits(value, a)
        whole == DigitsToNat(value, a, p - 1, 0)
        frac == DigitsToNat(value, p + 1, Len(value), 0)
        d == Pow10(Len(value) - p)
        m == whole * d + frac
    IN  Num(IF a = 2 THEN 0 - m ELSE m, d)

\* parseValue that reads true and false in any letter case
parseValueAnyCase(raw) ==
    LET value == Trim(raw)
    IN  IF ToLowerCase(value) = <<"n", "u", "l", "l">> THEN Null
        ELSE IF ToLowerCase(value) = <<"t", "r", "u", "e">> THEN Bool(TRUE)
        ELSE IF ToLowerCase(value) = <<"f", "a", "l", "s", "e">> THEN Bool(FALSE)
        ELSE IF IsIntegerLiteral(value) THEN ParseInt(value)
        ELSE IF IsDecimalLiteral(value) THEN ParseFloat(value)
        ELSE Text(value)

\* SimpleSQL.parseValue
parseValue(raw) ==
    LET value == Trim(raw)
    IN  IF ToLowerCase(value) = <<"n", "u", "l", "l">> THEN Null
        ELSE IF value = <<"t", "r", "u", "e">> THEN Bool(TRUE)
        ELSE IF value = <<"f", "a", "l", "s", "e">> THEN Bool(FALSE)
        ELSE IF IsIntegerLiteral(value) THEN ParseInt(value)
        ELSE IF IsDecimalLiteral(value) THEN ParseFloat(value)
        ELSE Text(value)

(***************************************************************************)
(* The tuple scanner                                                       *)
(***************************************************************************)
\* valuesStr.replace(/^\(|\)$/g, ''): one leading ( and one trailing ) go
StripOuterParens(s) ==
    LET a == IF Len(s) >= 1 /\ s[1] = "(" THEN 2 ELSE 1
        b == IF Len(s) >= a /\ s[Len(s)] = ")" THEN Len(s) - 1 ELSE Len(s)
    IN  Sub(s, a, b)

\* IsUnescapedQuote that takes every apostrophe, escaped or not
IsAnyQuote(s, i) == s[i] = "'"

\* char === "'" && (i === 0 || valuesStr[i-1] !== '\\')
IsUnescapedQuote(s, i) == s[i] = "'" /\ (i = 1 \/ s[i - 1] # "\\")

RECURSIVE ParseValuesLoop(_, _, _, _, _)
\* the for loop of parseValues at index i, and the push after it
ParseValuesLoop(s, i, current, inQuotes, values) ==
    IF i > Len(s)
    THEN IF Trim(current) # <<>>
         THEN Append(values, parseValue(Trim(current)))
         ELSE values
    ELSE IF IsUnescapedQuote(s, i)
         THEN ParseValuesLoop(s, i + 1, current, ~inQuotes, values)
    ELSE IF ~inQuotes /\ s[i] = ","
         THEN ParseValuesLoop(s, i + 1, <<>>, inQuotes,
                              Append(values, parseValue(Trim(current))))
    ELSE ParseValuesLoop(s, i + 1, Append(current, s[i]), inQuotes, values)

\* SimpleSQL.parseValues
parseValues(valuesStr) ==
    ParseValuesLoop(StripOuterParens(valuesStr), 1, <<>>, FALSE, <<>>)

RECURSIVE ParseValuesSetsLoop(_, _, _, _, _, _)
\* the for loop of parseValuesSets at index i, and the push after it
ParseValuesSetsLoop(s, i, current, inQuotes, parenCount, sets) ==
    IF i > Len(s)
    THEN IF Trim(current) # <<>>
         THEN Append(sets, parseValues(Trim(current)))
         ELSE sets
    ELSE LET q == IF IsUnescapedQuote(s, i) THEN ~inQuotes ELSE inQuotes
             p == IF q THEN parenCount
                  ELSE IF s[i] = "(" THEN parenCount + 1
                  ELSE IF s[i] = ")" THEN parenCount - 1
                  ELSE parenCount
         IN  IF ~q /\ p = 0 /\ s[i] = ","
             THEN ParseValuesSetsLoop(s, i + 1, <<>>, q, p,
                      IF Trim(current) # <<>>
                      THEN Append(sets, parseValues(Trim(current)))
                      ELSE sets)
             ELSE ParseValuesSetsLoop(s, i + 1, Append(current, s[i]), q, p, sets)

\* SimpleSQL.parseValuesSets
parseValuesSets(valuesStr) ==
    ParseValuesSetsLoop(valuesStr, 1, <<>>, FALSE, 0, <<>>)

(***************************************************************************)
(* The regular expressions of the handlers.  Each matcher returns a record *)
(* with ok = FALSE when String.match gives null, and the captured groups   *)
(* otherwise.  A regular expression without ^ is tried at every start      *)
(* position, leftmost first.                                               *)
(***************************************************************************)
NoMatch == [ok |-> FALSE]

KwCreate == <<"c", "r", "e", "a", "t", "e">>
KwTable == <<"t", "a", "b", "l", "e">>
KwInsert == <<"i", "n", "s", "e", "r", "t">>
KwInto == <<"i", "n", "t", "o">>
KwValues == <<"v", "a", "l", "u", "e", "s">>
KwSelect == <<"s", "e", "l", "e", "c", "t">>
KwFrom == <<"f", "r", "o", "m">>
KwWhere == <<"w", "h", "e", "r", "e">>
KwDrop == <<"d", "r", "o", "p">>

RECURSIVE LastCloseParen(_, _, _)
\* the last ) among s[from..to], or 0: where the greedy (.*) of \((.*)\)
\* ends after backtracking
LastCloseParen(s, from, to) ==
    IF to < from THEN 0
    ELSE IF s[to] = ")" THEN to
    ELSE LastCloseParen(s, from, to - 1)

\* \s*\((.*)\) at position i: the group, or NoMatch
ParenGroupAt(s, i) ==
    LET Group(p, c) ==
            IF c = 0 THEN NoMatch ELSE [ok |-> TRUE, group |-> Sub(s, p + 1, c - 1)]
        Open(p) ==
            IF p <= Len(s) /\ s[p] = "("
            THEN Group(p, LastCloseParen(s, p + 1, SkipDots(s, p + 1) - 1))
            ELSE NoMatch
    IN  Open(SkipSpaces(s, i))

\* <kw1>\s+<kw2>\s+(\w+) at position i: the word is s[from..to-1]
TwoKeywordsNameAt(s, i, kw1, kw2) ==
    LET Name(n, e) ==
            IF e = n THEN NoMatch ELSE [ok |-> TRUE, from |-> n, to |-> e]
        Second(c, n) ==
            IF n = c THEN NoMatch ELSE Name(n, SkipWord(s, n))
        First(a, b) ==
            IF b = a \/ ~LitAt(s, b, kw2) THEN NoMatch
            ELSE Second(b + Len(kw2), SkipSpaces(s, b + Len(kw2)))
    IN  IF ~LitAt(s, i, kw1) THEN NoMatch
        ELSE First(i + Len(kw1), SkipSpaces(s, i + Len(kw1)))

\* /create\s+table\s+(\w+)\s*\((.*)\)/i at position i
CreateAt(s, i) ==
    LET Body(w, g) ==
            IF ~g.ok THEN NoMatch
            ELSE [ok |-> TRUE, name |-> Sub(s, w.from, w.to - 1), group |-> g.group]
        Name(w) ==
            IF ~w.ok THEN NoMatch ELSE Body(w, ParenGroupAt(s, w.to))
    IN  Name(TwoKeywordsNameAt(s, i, KwCreate, KwTable))

RECURSIVE MatchCreateFrom(_, _)
MatchCreateFrom(s, i) ==
    LET Try(m) == IF m.ok THEN m ELSE MatchCreateFrom(s, i + 1)
    IN  IF i > Len(s) THEN NoMatch ELSE Try(CreateAt(s, i))

\* query.match(/create\s+table\s+(\w+)\s*\((.*)\)/i)
MatchCreate(query) == MatchCreateFrom(query, 1)

\* /insert\s+into\s+(\w+)\s+values\s*\((.*)\)/i at position i
InsertAt(s, i) ==
    LET Body(w, g) ==
            IF ~g.ok THEN NoMatch
            ELSE [ok |-> TRUE, name |-> Sub(s, w.from, w.to - 1), group |-> g.group]
        Values(w, v) ==
            IF v = w.to \/ ~LitAt(s, v, KwValues) THEN NoMatch
            ELSE Body(w, ParenGroupAt(s, v + 6))
        Name(w) ==
            IF ~w.ok THEN NoMatch ELSE Values(w, SkipSpaces(s, w.to))
    IN  Name(TwoKeywordsNameAt(s, i, KwInsert, KwInto))

RECURSIVE MatchInsertFrom(_, _)
MatchInsertFrom(s, i) ==
    LET Try(m) == IF m.ok THEN m ELSE MatchInsertFrom(s, i + 1)
    IN  IF i > Len(s) THEN NoMatch ELSE Try(InsertAt(s, i))

\* query.match(/insert\s+into\s+(\w+)\s+values\s*\((.*)\)/i)
MatchInsert(query) == MatchInsertFrom(query, 1)

\* /drop\s+table\s+(\w+)/i at position i
DropAt(s, i) ==
    LET Name(w) ==
            IF ~w.ok THEN NoMatch
            ELSE [ok |-> TRUE, name |-> Sub(s, w.from, w.to - 1)]
    IN  Name(TwoKeywordsNameAt(s, i, KwDrop, KwTable))

RECURSIVE MatchDropFrom(_, _)
MatchDropFrom(s, i) ==
    LET Try(m) == IF m.ok THEN m ELSE MatchDropFrom(s, i + 1)
    IN  IF i > Len(s) THEN NoMatch ELSE Try(DropAt(s, i))

\* query.match(/drop\s+table\s+(\w+)/i)
MatchDrop(query) == MatchDropFrom(query, 1)

\* \s+from\s+(\w+)(?:\s+where\s+(.*))? at position p, after the lazy group
\* (.*?) = s[c..p-1]
FromAt(s, c, p) ==
    LET Where(n, e, w, x) ==
            IF w > e /\ LitAt(s, w, KwWhere) /\ x > w + 5
            THEN [ok |-> TRUE, columns |-> Sub(s, c, p - 1),
                  name |-> Sub(s, n, e - 1), hasWhere |-> TRUE,
                  where |-> Sub(s, x, SkipDots(s, x) - 1)]
            ELSE [ok |-> TRUE, columns |-> Sub(s, c, p - 1),
                  name |-> Sub(s, n, e - 1), hasWhere |-> FALSE, where |-> <<>>]
        Spaces(n, e, w) == Where(n, e, w, SkipSpaces(s, w + 5))
        Name(n, e) ==
            IF e = n THEN NoMatch ELSE Spaces(n, e, SkipSpaces(s, e))
        Table(f, n) ==
            IF n = f + 4 THEN NoMatch ELSE Name(n, SkipWord(s, n))
        From(f) ==
            IF f = p \/ ~LitAt(s, f, KwFrom) THEN NoMatch
            ELSE Table(f, SkipSpaces(s, f + 4))
    IN  From(SkipSpaces(s, p))

RECURSIVE LazyColumns(_, _, _)
\* the lazy (.*?) that starts at c, grown one character at a time to p
LazyColumns(s, c, p) ==
    LET Try(m) ==
            IF m.ok THEN m
            ELSE IF p <= Len(s) /\ IsDot(s[p]) THEN LazyColumns(s, c, p + 1)
            ELSE NoMatch
    IN  Try(FromAt(s, c, p))

RECURSIVE SelectSpaces(_, _, _)
\* the greedy \s+ after select, which holds k characters from a and gives
\* them back one at a time
SelectSpaces(s, a, k) ==
    LET Try(m) == IF m.ok THEN m ELSE SelectSpaces(s, a, k - 1)
    IN  IF k < 1 THEN NoMatch ELSE Try(LazyColumns(s, a + k, a + k))

\* /select\s+(.*?)\s+from\s+(\w+)(?:\s+where\s+(.*))?/i at position i
SelectAt(s, i) ==
    IF ~LitAt(s, i, KwSelect) THEN NoMatch
    ELSE SelectSpaces(s, i + 6, SkipSpaces(s, i + 6) - (i + 6))

RECURSIVE MatchSelectFrom(_, _)
MatchSelectFrom(s, i) ==
    LET Try(m) == IF m.ok THEN m ELSE MatchSelectFrom(s, i + 1)
    IN  IF i > Len(s) THEN NoMatch ELSE Try(SelectAt(s, i))

\* query.match(/select\s+(.*?)\s+from\s+(\w+)(?:\s+where\s+(.*))?/i)
MatchSelect(query) == MatchSelectFrom(query, 1)

\* [><=] of the WHERE regular expression
IsOperatorChar(c) == c \in {">", "<", "="}

RECURSIVE SkipOperator(_, _)
SkipOperator(s, i) ==
    IF i <= Len(s) /\ IsOperatorChar(s[i]) THEN SkipOperator(s, i + 1) ELSE i

RECURSIVE ValueStart(_, _, _)
\* where (.+) starts: the second \s* holds s[o..v-1] and gives characters
\* back until . can match one; 0 when it cannot
ValueStart(s, o, v) ==
    IF v < o THEN 0
    ELSE IF v <= Len(s) /\ IsDot(s[v]) THEN v
    ELSE ValueStart(s, o, v - 1)

\* /(\w+)\s*([><=]+)\s*(.+)/i at position i: when (.+) finds nothing after
\* the operator, [><=]+ gives its last character back to it
WhereAt(s, i) ==
    LET Value(e, b, o, v) ==
            IF v # 0
            THEN [ok |-> TRUE, columnName |-> Sub(s, i, e - 1),
                  operator |-> Sub(s, b, o - 1),
                  valueStr |-> Sub(s, v, SkipDots(s, v) - 1)]
            ELSE IF o - b >= 2
            THEN [ok |-> TRUE, columnName |-> Sub(s, i, e - 1),
                  operator |-> Sub(s, b, o - 2),
                  valueStr |-> Sub(s, o - 1, SkipDots(s, o - 1) - 1)]
            ELSE NoMatch
        Operator(e, b, o) ==
            IF o = b THEN NoMatch
            ELSE Value(e, b, o, ValueStart(s, o, SkipSpaces(s, o)))
        Spaces(e, b) == Operator(e, b, SkipOperator(s, b))
        Word(e) == IF e = i THEN NoMatch ELSE Spaces(e, SkipSpaces(s, e))
    IN  Word(SkipWord(s, i))

RECURSIVE MatchWhereFrom(_, _)
MatchWhereFrom(s, i) ==
    LET Try(m) == IF m.ok THEN m ELSE MatchWhereFrom(s, i + 1)
    IN  IF i > Len(s) THEN NoMatch ELSE Try(WhereAt(s, i))

\* whereClause.match(/(\w+)\s*([><=]+)\s*(.+)/i)
MatchWhere(whereClause) == MatchWhereFrom(whereClause, 1)

(***************************************************************************)
(* The JS comparison operators of evaluateWhere, on scalars.               *)
(***************************************************************************)
NaN == [k |-> "nan"]

\* Number(string): StringToNumber of the trimmed text.  The decimal forms
\* [+-]?digits[.digits*] and [+-]?.digits are read; every other text is NaN
\* (the literals of the statements below hold no exponent, no radix prefix
\* and no Infinity, the other forms Number reads).
StringToNumber(str) ==
    LET Value(t, a, p, e, fracLen) ==
            IF e = Len(t) + 1 /\ (p - a) + fracLen >= 1
            THEN Num((IF t[1] = "-" THEN -1 ELSE 1)
                       * (DigitsToNat(t, a, p - 1, 0) * Pow10(fracLen)
                          + DigitsToNat(t, p + 1, e - 1, 0)),
                     Pow10(fracLen))
            ELSE NaN
        Fraction(t, a, p, e) == Value(t, a, p, e, IF e > p THEN e - p - 1 ELSE 0)
        Whole(t, a, p) ==
            Fraction(t, a, p,
                     IF p <= Len(t) /\ t[p] = "." THEN SkipDigits(t, p + 1) ELSE p)
        Sign(t, a) == Whole(t, a, SkipDigits(t, a))
        Trimmed(t) ==
            IF t = <<>> THEN Num(0, 1)
            ELSE Sign(t, IF t[1] \in {"-", "+"} THEN 2 ELSE 1)
    IN  Trimmed(Trim(str))

\* ToNumber of a scalar
ToNumber(x) ==
    CASE x.k = "null" -> Num(0, 1)
      [] x.k = "bool" -> IF x.b THEN Num(1, 1) ELSE Num(0, 1)
      [] x.k = "number" -> x
      [] x.k = "text" -> StringToNumber(x.s)

RECURSIVE StringLess(_, _, _)
\* a < b for two strings: by code unit, from position i
StringLess(a, b, i) ==
    IF i > Len(b) THEN FALSE
    ELSE IF i > Len(a) THEN TRUE
    ELSE IF a[i] = b[i] THEN StringLess(a, b, i + 1)
    ELSE CharCode[a[i]] < CharCode[b[i]]

\* x < y of JS (IsLessThan): "undefined" when a side is NaN
LessThan(x, y) ==
    LET Numbers(nx, ny) ==
            IF nx.k = "nan" \/ ny.k = "nan" THEN "undefined"
            ELSE IF nx.n * ny.d < ny.n * nx.d THEN "true" ELSE "false"
    IN  IF x.k = "text" /\ y.k = "text"
        THEN IF StringLess(x.s, y.s, 1) THEN "true" ELSE "false"
        ELSE Numbers(ToNumber(x), ToNumber(y))

\* x == y of JS (IsLooselyEqual): a Bool is read as a number, and a number
\* is compared with the number a string reads as
LooseEquals(x, y) ==
    LET NoBool(a, b) ==
            IF a.k = b.k THEN a = b
            ELSE IF a.k = "null" \/ b.k = "null" THEN FALSE
            ELSE ToNumber(a) = ToNumber(b)
    IN  IF x.k = y.k THEN x = y
        ELSE IF x.k = "null" \/ y.k = "null" THEN FALSE
        ELSE NoBool(IF x.k = "bool" THEN ToNumber(x) ELSE x,
                    IF y.k = "bool" THEN ToNumber(y) ELSE y)

\* ApplyOperator with > read as >=
ApplyOperatorGreaterOrEqual(operator, rowValue, compareValue) ==
    LET Switch(equal, less, greater) ==
            CASE operator = <<"=">> -> equal
              [] operator = <<">">> -> less = "false"
              [] operator = <<"<">> -> less = "true"
              [] operator = <<">", "=">> -> less = "false"
              [] operator = <<"<", "=">> -> greater = "false"
              [] operator = <<"!", "=">> -> ~equal
              [] operator = <<"<", ">">> -> ~equal
              [] OTHER -> TRUE
    IN  Switch(LooseEquals(rowValue, compareValue),
               LessThan(rowValue, compareValue),
               LessThan(compareValue, rowValue))

\* the switch of evaluateWhere
ApplyOperator(operator, rowValue, compareValue) ==
    LET Switch(equal, less, greater) ==
            CASE operator = <<"=">> -> equal
              [] operator = <<">">> -> greater = "true"
              [] operator = <<"<">> -> less = "true"
              [] operator = <<">", "=">> -> less = "false"
              [] operator = <<"<", "=">> -> greater = "false"
              [] operator = <<"!", "=">> -> ~equal
              [] operator = <<"<", ">">> -> ~equal
              [] OTHER -> TRUE
    IN  Switch(LooseEquals(rowValue, compareValue),
               LessThan(rowValue, compareValue),
               LessThan(compareValue, rowValue))

RECURSIVE FindIndexFrom(_, _, _)
\* columns.findIndex(col => col.name.toLowerCase() === name.toLowerCase()),
\* 1-based, 0 for -1
FindIndexFrom(columns, name, i) ==
    IF i > Len(columns) THEN 0
    ELSE IF ToLowerCase(columns[i].name) = ToLowerCase(name) THEN i
    ELSE FindIndexFrom(columns, name, i + 1)

RECURSIVE FindIndexLast(_, _)
\* FindIndex that takes the last matching column instead of the first
FindIndexLast(columns, name) ==
    IF columns = <<>> THEN 0
    ELSE IF ToLowerCase(columns[Len(columns)].name) = ToLowerCase(name)
         THEN Len(columns)
    ELSE FindIndexLast(SubSeq(columns, 1, Len(columns) - 1), name)

FindIndex(columns, name) == FindIndexFrom(columns, name, 1)

\* evaluateWhere that drops the row when the clause cannot be read or names
\* an unknown column
evaluateWhereStrict(row, columns, whereClause) ==
    LET Compare(match, columnIndex) ==
            IF columnIndex = 0 THEN FALSE
            ELSE ApplyOperator(match.operator, row[columnIndex],
                               parseValue(match.valueStr))
        Matched(match) ==
            IF ~match.ok THEN FALSE
            ELSE Compare(match, FindIndex(columns, match.columnName))
    IN  Matched(MatchWhere(whereClause))

\* SimpleSQL.evaluateWhere
evaluateWhere(row, columns, whereClause) ==
    LET Compare(match, columnIndex) ==
            IF columnIndex = 0 THEN TRUE
            ELSE ApplyOperator(match.operator, row[columnIndex],
                               parseValue(match.valueStr))
        Matched(match) ==
            IF ~match.ok THEN TRUE
            ELSE Compare(match, FindIndex(columns, match.columnName))
    IN  Matched(MatchWhere(whereClause))

(***************************************************************************)
(* The statement handlers.  A handler maps the catalog (this.tables, a Map *)
(* from the lower-cased table name to {columns, rows}) and the statement   *)
(* to the catalog afterwards and the outcome: the value returned, or the   *)
(* Error thrown (its kind and the values its message shows).               *)
(***************************************************************************)
Returned(T, result) ==
    [tables |-> T, outcome |-> [status |-> "ok", result |-> result]]

Thrown(T, error) ==
    [tables |-> T, outcome |-> [status |-> "error", error |-> error]]

\* return [{ columns, values }] of SimpleSQL.select: besides the value, the
\* identity of each array in values: rowObjects[r] is the index in
\* table.rows of the stored row that values[r] is (the same object), or 0
\* when values[r] is an array made for the result
ReturnedRows(T, result, tableName, rowObjects) ==
    [tables |-> T,
     outcome |-> [status |-> "ok", result |-> result,
                  table |-> tableName, rowObjects |-> rowObjects]]

\* 'Invalid CREATE TABLE syntax', 'Invalid INSERT syntax', 'Invalid DROP TABLE syntax'
SyntaxError(statement) == [kind |-> "SyntaxError", statement |-> statement]
\* `Table '${tableName}' does not exist`
UnknownTable(tableName) == [kind |-> "UnknownTable", table |-> tableName]
\* `Column count mismatch. Expected ${table.columns.length}, got ${values.length}`
ColumnCountMismatch(expected, got) ==
    [kind |-> "ColumnCountMismatch", expected |-> expected, got |-> got]
\* `Column '${colName}' not found`
UnknownColumn(colName) == [kind |-> "UnknownColumn", column |-> colName]
\* 'File reading functions like ... are not supported in the local SQL engine...'
FileReadingUnsupported == [kind |-> "UnsupportedFeature", feature |-> "file reading"]
\* 'Advanced SELECT queries ... are not supported in the local SQL engine...'
AdvancedSelectUnsupported == [kind |-> "UnsupportedFeature", feature |-> "advanced select"]
\* 'Unsupported query type. This simple SQL engine supports: ...'
UnsupportedQueryType == [kind |-> "UnsupportedQueryType"]

TypeText == <<"T", "E", "X", "T">>

\* ColumnOf without the default: a missing type stays empty
ColumnOfNoDefault(col) ==
    LET Parts(parts) ==
            [name |-> parts[1], type |-> IF Len(parts) >= 2 THEN parts[2] ELSE <<>>]
    IN  Parts(SplitSpaces(Trim(col)))

\* col => { parts = col.trim().split(/\s+/); {name: parts[0], type: parts[1] || 'TEXT'} }
ColumnOf(col) ==
    LET Parts(parts) ==
            [name |-> parts[1], type |-> IF Len(parts) >= 2 THEN parts[2] ELSE TypeText]
    IN  Parts(SplitSpaces(Trim(col)))

\* MapSet that leaves a table already in the catalog as it is
MapSetIfAbsent(T, tableName, table) ==
    [n \in DOMAIN T \cup {tableName} |-> IF n \in DOMAIN T THEN T[n] ELSE table]

\* this.tables.set(tableName, table)
MapSet(T, tableName, table) ==
    [n \in DOMAIN T \cup {tableName} |-> IF n = tableName THEN table ELSE T[n]]

\* MapDelete that removes nothing
MapDeleteNothing(T, tableName) == T

\* this.tables.delete(tableName)
MapDelete(T, tableName) == [n \in DOMAIN T \ {tableName} |-> T[n]]

\* createTable that keys the catalog by the name as written
createTableCaseSensitive(T, query) ==
    LET Columns(defs) == [i \in 1..Len(defs) |-> ColumnOf(defs[i])]
        Matched(match) ==
            IF ~match.ok THEN Thrown(T, SyntaxError("CREATE TABLE"))
            ELSE Returned(MapSet(T, match.name,
                                 [columns |-> Columns(Split(match.group, ",")),
                                  rows |-> <<>>]),
                          <<>>)
    IN  Matched(MatchCreate(query))

\* SimpleSQL.createTable
createTable(T, query) ==
    LET Columns(defs) == [i \in 1..Len(defs) |-> ColumnOf(defs[i])]
        Matched(match) ==
            IF ~match.ok THEN Thrown(T, SyntaxError("CREATE TABLE"))
            ELSE Returned(MapSet(T, ToLowerCase(match.name),
                                 [columns |-> Columns(Split(match.group, ",")),
                                  rows |-> <<>>]),
                          <<>>)
    IN  Matched(MatchCreate(query))

RECURSIVE PushRowsUnchecked(_, _, _, _)
\* PushRows without the arity check: every values set is pushed
PushRowsUnchecked(rows, valuesSets, i, expected) ==
    IF i > Len(valuesSets) THEN [rows |-> rows, failed |-> FALSE]
    ELSE PushRowsUnchecked(Append(rows, valuesSets[i]), valuesSets, i + 1, expected)

RECURSIVE PushRowsFront(_, _, _, _)
\* PushRows that puts each new row before the rows already stored
PushRowsFront(rows, valuesSets, i, expected) ==
    IF i > Len(valuesSets) THEN [rows |-> rows, failed |-> FALSE]
    ELSE IF Len(valuesSets[i]) # expected
         THEN [rows |-> rows, failed |-> TRUE,
               error |-> ColumnCountMismatch(expected, Len(valuesSets[i]))]
    ELSE PushRowsFront(<<valuesSets[i]>> \o rows, valuesSets, i + 1, expected)

RECURSIVE PushRows(_, _, _, _)
\* valuesSets.forEach from index i: the rows pushed so far, and the error
\* that ended the loop
PushRows(rows, valuesSets, i, expected) ==
    IF i > Len(valuesSets) THEN [rows |-> rows, failed |-> FALSE]
    ELSE IF Len(valuesSets[i]) # expected
         THEN [rows |-> rows, failed |-> TRUE,
               error |-> ColumnCountMismatch(expected, Len(valuesSets[i]))]
    ELSE PushRows(Append(rows, valuesSets[i]), valuesSets, i + 1, expected)

\* insertInto that enters an absent table into the catalog before it throws
insertIntoCreating(T, query) ==
    LET Pushed(tableName, pushed) ==
            IF pushed.failed
            THEN Thrown([T EXCEPT ![tableName].rows = pushed.rows], pushed.error)
            ELSE Returned([T EXCEPT ![tableName].rows = pushed.rows], <<>>)
        Named(tableName, valuesStr) ==
            IF tableName \notin DOMAIN T
            THEN Thrown(MapSet(T, tableName, [columns |-> <<>>, rows |-> <<>>]),
                        UnknownTable(tableName))
            ELSE Pushed(tableName,
                        PushRows(T[tableName].rows, parseValuesSets(valuesStr), 1,
                                 Len(T[tableName].columns)))
        Matched(match) ==
            IF ~match.ok THEN Thrown(T, SyntaxError("INSERT"))
            ELSE Named(ToLowerCase(match.name), match.group)
    IN  Matched(MatchInsert(query))

\* SimpleSQL.insertInto
insertInto(T, query) ==
    LET Pushed(tableName, pushed) ==
            IF pushed.failed
            THEN Thrown([T EXCEPT ![tableName].rows = pushed.rows], pushed.error)
            ELSE Returned([T EXCEPT ![tableName].rows = pushed.rows], <<>>)
        Named(tableName, valuesStr) ==
            IF tableName \notin DOMAIN T THEN Thrown(T, UnknownTable(tableName))
            ELSE Pushed(tableName,
                        PushRows(T[tableName].rows, parseValuesSets(valuesStr), 1,
                                 Len(T[tableName].columns)))
        Matched(match) ==
            IF ~match.ok THEN Thrown(T, SyntaxError("INSERT"))
            ELSE Named(ToLowerCase(match.name), match.group)
    IN  Matched(MatchInsert(query))

RECURSIVE ColIndicesFrom(_, _, _)
\* selectedCols.map(colName => findIndex ...) from i: the indices, or the
\* first column that is not found
ColIndicesFrom(columns, selectedCols, i) ==
    LET Rest(index, rest) ==
            IF ~rest.ok THEN rest
            ELSE [ok |-> TRUE, indices |-> <<index>> \o rest.indices]
        Found(index) ==
            IF index = 0 THEN [ok |-> FALSE, column |-> selectedCols[i]]
            ELSE Rest(index, ColIndicesFrom(columns, selectedCols, i + 1))
    IN  IF i > Len(selectedCols) THEN [ok |-> TRUE, indices |-> <<>>]
        ELSE Found(FindIndex(columns, selectedCols[i]))

RECURSIVE FilterIndices(_, _, _, _)
\* rows.filter(row => this.evaluateWhere(row, columns, whereClause)) from i:
\* the indices in rows of the row objects that the filter keeps
FilterIndices(rows, columns, whereClause, i) ==
    IF i > Len(rows) THEN <<>>
    ELSE IF evaluateWhere(rows[i], columns, whereClause)
         THEN <<i>> \o FilterIndices(rows, columns, whereClause, i + 1)
    ELSE FilterIndices(rows, columns, whereClause, i + 1)

\* SimpleSQL.select
select(T, query) ==
    LET Projected(tableName, rows, selectedCols, colIndices) ==
            IF ~colIndices.ok THEN Thrown(T, UnknownColumn(colIndices.column))
            ELSE ReturnedRows(T, <<[columns |-> selectedCols,
                                    values |-> [r \in 1..Len(rows) |->
                                        [j \in 1..Len(colIndices.indices) |->
                                            rows[r][colIndices.indices[j]]]]]>>,
                              tableName, [r \in 1..Len(rows) |-> 0])
        Selected(tableName, table, rows, selectedCols) ==
            Projected(tableName, rows, selectedCols,
                      ColIndicesFrom(table.columns, selectedCols, 1))
        Listed(tableName, table, rows, parts) ==
            Selected(tableName, table, rows, [i \in 1..Len(parts) |-> Trim(parts[i])])
        Filtered(tableName, table, columnsStr, rows, kept) ==
            IF columnsStr = <<"*">>
            THEN ReturnedRows(T, <<[columns |-> [i \in 1..Len(table.columns) |->
                                                    table.columns[i].name],
                                    values |-> rows]>>,
                              tableName, kept)
            ELSE Listed(tableName, table, rows, Split(columnsStr, ","))
        Kept(tableName, table, columnsStr, kept) ==
            Filtered(tableName, table, columnsStr,
                     [r \in 1..Len(kept) |-> table.rows[kept[r]]], kept)
        Found(tableName, table, columnsStr, hasWhere, whereClause) ==
            Kept(tableName, table, columnsStr,
                 IF hasWhere /\ whereClause # <<>>
                 THEN FilterIndices(table.rows, table.columns, whereClause, 1)
                 ELSE [i \in 1..Len(table.rows) |-> i])
        Named(tableName, basicMatch) ==
            IF tableName \notin DOMAIN T THEN Thrown(T, UnknownTable(tableName))
            ELSE Found(tableName, T[tableName], Trim(basicMatch.columns),
                       basicMatch.hasWhere, basicMatch.where)
        Matched(basicMatch) ==
            IF ~basicMatch.ok THEN Thrown(T, AdvancedSelectUnsupported)
            ELSE Named(ToLowerCase(basicMatch.name), basicMatch)
    IN  Matched(MatchSelect(query))

\* SimpleSQL.dropTable
dropTable(T, query) ==
    LET Named(tableName) ==
            IF tableName \notin DOMAIN T THEN Thrown(T, UnknownTable(tableName))
            ELSE Returned(MapDelete(T, tableName), <<>>)
        Matched(match) ==
            IF ~match.ok THEN Thrown(T, SyntaxError("DROP TABLE"))
            ELSE Named(ToLowerCase(match.name))
    IN  Matched(MatchDrop(query))

KwReadCsvAuto ==
    <<"r", "e", "a", "d", "_", "c", "s", "v", "_", "a", "u", "t", "o", "(">>
KwReadParquet ==
    <<"r", "e", "a", "d", "_", "p", "a", "r", "q", "u", "e", "t", "(">>

\* Route that tests the prefixes on the statement as written, untrimmed
RouteUntrimmed(query) ==
    LET Branch(trimmed) ==
            IF StartsWith(trimmed, KwCreate \o <<" ">> \o KwTable) THEN "createTable"
            ELSE IF StartsWith(trimmed, KwInsert \o <<" ">> \o KwInto) THEN "insertInto"
            ELSE IF StartsWith(trimmed, KwSelect) THEN "select"
            ELSE IF StartsWith(trimmed, KwDrop \o <<" ">> \o KwTable) THEN "dropTable"
            ELSE IF \/ StartsWith(trimmed, KwReadCsvAuto)
                    \/ StartsWith(trimmed, KwReadParquet)
                 THEN "fileReading"
            ELSE "unsupported"
    IN  Branch(ToLowerCase(query))

\* the branch of SimpleSQL.exec that the statement takes
Route(query) ==
    LET Branch(trimmed) ==
            IF StartsWith(trimmed, KwCreate \o <<" ">> \o KwTable) THEN "createTable"
            ELSE IF StartsWith(trimmed, KwInsert \o <<" ">> \o KwInto) THEN "insertInto"
            ELSE IF StartsWith(trimmed, KwSelect) THEN "select"
            ELSE IF StartsWith(trimmed, KwDrop \o <<" ">> \o KwTable) THEN "dropTable"
            ELSE IF \/ StartsWith(trimmed, KwReadCsvAuto)
                    \/ StartsWith(trimmed, KwReadParquet)
                 THEN "fileReading"
            ELSE "unsupported"
    IN  Branch(ToLowerCase(Trim(query)))

\* SimpleSQL.exec
exec(T, query) ==
    LET Routed(route) ==
            CASE route = "createTable" -> createTable(T, query)
              [] route = "insertInto" -> insertInto(T, query)
              [] route = "select" -> select(T, query)
              [] route = "dropTable" -> dropTable(T, query)
              [] route = "fileReading" -> Thrown(T, FileReadingUnsupported)
              [] route = "unsupported" -> Thrown(T, UnsupportedQueryType)
    IN  Routed(Route(query))

(***************************************************************************)
(* The statements handed to exec: what the worksheet reads from the query  *)
(* editor, one statement per call.                                         *)
(***************************************************************************)
\* CREATE TABLE t (a INT, b TEXT)
CreateAB ==
    <<"C", "R", "E", "A", "T", "E", " ", "T", "A", "B", "L", "E", " ", "t",
      " ", "(", "a", " ", "I", "N", "T", ",", " ", "b", " ", "T", "E", "X",
      "T", ")">>

\* create table T(a)
CreateUpper ==
    <<"c", "r", "e", "a", "t", "e", " ", "t", "a", "b", "l", "e", " ", "T",
      "(", "a", ")">>

\* CREATE TABLE u (n INT)
CreateU ==
    <<"C", "R", "E", "A", "T", "E", " ", "T", "A", "B", "L", "E", " ", "u",
      " ", "(", "n", " ", "I", "N", "T", ")">>

\* CREATE TABLE t
CreateMalformed ==
    <<"C", "R", "E", "A", "T", "E", " ", "T", "A", "B", "L", "E", " ", "t">>

\* INSERT INTO t VALUES (1,'x'),(2,'y')
InsertPair ==
    <<"I", "N", "S", "E", "R", "T", " ", "I", "N", "T", "O", " ", "t", " ",
      "V", "A", "L", "U", "E", "S", " ", "(", "1", ",", "'", "x", "'", ")",
      ",", "(", "2", ",", "'", "y", "'", ")">>

\* INSERT INTO t VALUES (3,'z')
InsertOne ==
    <<"I", "N", "S", "E", "R", "T", " ", "I", "N", "T", "O", " ", "t", " ",
      "V", "A", "L", "U", "E", "S", " ", "(", "3", ",", "'", "z", "'", ")">>

\* INSERT INTO t VALUES (1,'x'),(2)
InsertShort ==
    <<"I", "N", "S", "E", "R", "T", " ", "I", "N", "T", "O", " ", "t", " ",
      "V", "A", "L", "U", "E", "S", " ", "(", "1", ",", "'", "x", "'", ")",
      ",", "(", "2", ")">>

\* INSERT INTO t VALUES ((1,'x'),(2,'y'))
InsertNested ==
    <<"I", "N", "S", "E", "R", "T", " ", "I", "N", "T", "O", " ", "t", " ",
      "V", "A", "L", "U", "E", "S", " ", "(", "(", "1", ",", "'", "x", "'",
      ")", ",", "(", "2", ",", "'", "y", "'", ")", ")">>

\* INSERT INTO t VALUES (('2.','w'),(4))
InsertNestedShort ==
    <<"I", "N", "S", "E", "R", "T", " ", "I", "N", "T", "O", " ", "t", " ",
      "V", "A", "L", "U", "E", "S", " ", "(", "(", "'", "2", ".", "'", ",",
      "'", "w", "'", ")", ",", "(", "4", ")", ")">>

\* insert into T values (5)
InsertUpper ==
    <<"i", "n", "s", "e", "r", "t", " ", "i", "n", "t", "o", " ", "T", " ",
      "v", "a", "l", "u", "e", "s", " ", "(", "5", ")">>

\* INSERT INTO u VALUES (7)
InsertU ==
    <<"I", "N", "S", "E", "R", "T", " ", "I", "N", "T", "O", " ", "u", " ",
      "V", "A", "L", "U", "E", "S", " ", "(", "7", ")">>

\* INSERT INTO t (1)
InsertMalformed ==
    <<"I", "N", "S", "E", "R", "T", " ", "I", "N", "T", "O", " ", "t", " ",
      "(", "1", ")">>

\* SELECT * FROM t
SelectAll ==
    <<"S", "E", "L", "E", "C", "T", " ", "*", " ", "F", "R", "O", "M", " ",
      "t">>

\* select * from T
SelectUpper ==
    <<"s", "e", "l", "e", "c", "t", " ", "*", " ", "f", "r", "o", "m", " ",
      "T">>

\* SELECT * FROM u
SelectU ==
    <<"S", "E", "L", "E", "C", "T", " ", "*", " ", "F", "R", "O", "M", " ",
      "u">>

\* SELECT b FROM t WHERE a > 1
SelectB ==
    <<"S", "E", "L", "E", "C", "T", " ", "b", " ", "F", "R", "O", "M", " ",
      "t", " ", "W", "H", "E", "R", "E", " ", "a", " ", ">", " ", "1">>

\* SELECT * FROM t WHERE a = 1
WhereEq ==
    <<"S", "E", "L", "E", "C", "T", " ", "*", " ", "F", "R", "O", "M", " ",
      "t", " ", "W", "H", "E", "R", "E", " ", "a", " ", "=", " ", "1">>

\* SELECT * FROM t WHERE a > 1
WhereGt ==
    <<"S", "E", "L", "E", "C", "T", " ", "*", " ", "F", "R", "O", "M", " ",
      "t", " ", "W", "H", "E", "R", "E", " ", "a", " ", ">", " ", "1">>

\* SELECT * FROM t WHERE a < 2
WhereLt ==
    <<"S", "E", "L", "E", "C", "T", " ", "*", " ", "F", "R", "O", "M", " ",
      "t", " ", "W", "H", "E", "R", "E", " ", "a", " ", "<", " ", "2">>

\* SELECT * FROM t WHERE a >= 2
WhereGe ==
    <<"S", "E", "L", "E", "C", "T", " ", "*", " ", "F", "R", "O", "M", " ",
      "t", " ", "W", "H", "E", "R", "E", " ", "a", " ", ">", "=", " ", "2">>

\* SELECT * FROM t WHERE a <= 1
WhereLe ==
    <<"S", "E", "L", "E", "C", "T", " ", "*", " ", "F", "R", "O", "M", " ",
      "t", " ", "W", "H", "E", "R", "E", " ", "a", " ", "<", "=", " ", "1">>

\* SELECT * FROM t WHERE a != 1
WhereNe ==
    <<"S", "E", "L", "E", "C", "T", " ", "*", " ", "F", "R", "O", "M", " ",
      "t", " ", "W", "H", "E", "R", "E", " ", "a", " ", "!", "=", " ", "1">>

\* SELECT * FROM t WHERE a <> 1
WhereLtGt ==
    <<"S", "E", "L", "E", "C", "T", " ", "*", " ", "F", "R", "O", "M", " ",
      "t", " ", "W", "H", "E", "R", "E", " ", "a", " ", "<", ">", " ", "1">>

\* SELECT * FROM t WHERE true
WhereTrue ==
    <<"S", "E", "L", "E", "C", "T", " ", "*", " ", "F", "R", "O", "M", " ",
      "t", " ", "W", "H", "E", "R", "E", " ", "t", "r", "u", "e">>

\* SELECT a FROM t WHERE c = 1
WhereUnknownColumn ==
    <<"S", "E", "L", "E", "C", "T", " ", "a", " ", "F", "R", "O", "M", " ",
      "t", " ", "W", "H", "E", "R", "E", " ", "c", " ", "=", " ", "1">>

\* SELECT 1
SelectNoFrom ==
    <<"S", "E", "L", "E", "C", "T", " ", "1">>

\* DROP TABLE t
DropT ==
    <<"D", "R", "O", "P", " ", "T", "A", "B", "L", "E", " ", "t">>

\* drop table T
DropUpper ==
    <<"d", "r", "o", "p", " ", "t", "a", "b", "l", "e", " ", "T">>

\* DROP TABLE u
DropU ==
    <<"D", "R", "O", "P", " ", "T", "A", "B", "L", "E", " ", "u">>

\* DROP TABLE
DropMalformed ==
    <<"D", "R", "O", "P", " ", "T", "A", "B", "L", "E">>

\* read_csv_auto('f.csv')
ReadCsv ==
    <<"r", "e", "a", "d", "_", "c", "s", "v", "_", "a", "u", "t", "o", "(",
      "'", "f", ".", "c", "s", "v", "'", ")">>

\* VACUUM
Vacuum ==
    <<"V", "A", "C", "U", "U", "M">>

\* SELECT * FROM read_csv_auto('f.csv')
SelectReadCsv ==
    <<"S", "E", "L", "E", "C", "T", " ", "*", " ", "F", "R", "O", "M", " ",
      "r", "e", "a", "d", "_", "c", "s", "v", "_", "a", "u", "t", "o", "(",
      "'", "f", ".", "c", "s", "v", "'", ")">>

\* SELECT * FROM 'https://e.com/f.csv'
SelectUrl ==
    <<"S", "E", "L", "E", "C", "T", " ", "*", " ", "F", "R", "O", "M", " ",
      "'", "h", "t", "t", "p", "s", ":", "/", "/", "e", ".", "c", "o", "m",
      "/", "f", ".", "c", "s", "v", "'">>

\*   READ_PARQUET('f.parquet')
ReadParquetUpper ==
    <<" ", " ", "R", "E", "A", "D", "_", "P", "A", "R", "Q", "U", "E", "T",
      "(", "'", "f", ".", "p", "a", "r", "q", "u", "e", "t", "'", ")">>

\* CREATE  TABLE t (a)
CreateTwoSpaces ==
    <<"C", "R", "E", "A", "T", "E", " ", " ", "T", "A", "B", "L", "E", " ",
      "t", " ", "(", "a", ")">>

\* SELECT*FROM t
SelectGlued ==
    <<"S", "E", "L", "E", "C", "T", "*", "F", "R", "O", "M", " ", "t">>

\* DROP TABLE t junk
DropJunk ==
    <<"D", "R", "O", "P", " ", "T", "A", "B", "L", "E", " ", "t", " ", "j",
      "u", "n", "k">>

\* SELECT * FROM t junk
SelectJunk ==
    <<"S", "E", "L", "E", "C", "T", " ", "*", " ", "F", "R", "O", "M", " ",
      "t", " ", "j", "u", "n", "k">>

\* SELECT * FROM t WHERE b = 'x'
WhereQuoted ==
    <<"S", "E", "L", "E", "C", "T", " ", "*", " ", "F", "R", "O", "M", " ",
      "t", " ", "W", "H", "E", "R", "E", " ", "b", " ", "=", " ", "'", "x",
      "'">>

Statements ==
    {CreateAB, CreateUpper, CreateU, CreateMalformed, InsertPair, InsertOne,
     InsertShort, InsertNested, InsertNestedShort, InsertUpper, InsertU,
     InsertMalformed, SelectAll, SelectUpper, SelectU, SelectB, WhereEq,
     WhereGt, WhereLt, WhereGe, WhereLe, WhereNe, WhereLtGt, WhereTrue,
     WhereUnknownColumn, SelectNoFrom, DropT, DropUpper, DropU,
     DropMalformed, ReadCsv, Vacuum, SelectReadCsv, SelectUrl,
     ReadParquetUpper, CreateTwoSpaces, SelectGlued, DropJunk, SelectJunk,
     WhereQuoted}

\* the most rows a table is grown to
MaxRows == 3

(***************************************************************************)
(* The state machine: one SimpleSQL instance, exec called again and again. *)
(* lastQuery and outcome record the last call and what it returned or      *)
(* threw; prevTables is the catalog that call started from.                *)
(***************************************************************************)
EmptyCatalog == [n \in {} |-> [columns |-> <<>>, rows |-> <<>>]]

\* the DuckDBWorksheet that holds the engine, after init has fallen back to
\* SimpleSQL (src/app.js:309-311) and with no executeQuery under way:
\* initAt is the await init stands at, calls the executeQuery invocations
\* that stand at an await, log the statements handed to an engine so far
\* and events the number of execute events so far
FallbackWorksheet ==
    [isInitialized |-> TRUE, isFallback |-> TRUE, initAt |-> "done",
     calls |-> {}, log |-> <<>>, events |-> 0]

\* new SimpleSQL(): this.tables = new Map()
Init ==
    /\ tables = EmptyCatalog
    /\ prevTables = EmptyCatalog
    /\ lastQuery = <<>>
    /\ outcome = [status |-> "none"]
    /\ worksheet = FallbackWorksheet

\* one call exec(query), with r what it leaves and returns
Call(query) ==
    LET Done(r) ==
            /\ \A n \in DOMAIN r.tables : Len(r.tables[n].rows) <= MaxRows
            /\ tables' = r.tables
            /\ outcome' = r.outcome
            /\ lastQuery' = query
            /\ prevTables' = tables
            /\ UNCHANGED worksheet
    IN  Done(exec(tables, query))

ExecCreateTable == \E query \in Statements : Route(query) = "createTable" /\ Call(query)

ExecInsertInto == \E query \in Statements : Route(query) = "insertInto" /\ Call(query)

ExecSelect == \E query \in Statements : Route(query) = "select" /\ Call(query)

ExecDropTable == \E query \in Statements : Route(query) = "dropTable" /\ Call(query)

ExecFileReading == \E query \in Statements : Route(query) = "fileReading" /\ Call(query)

ExecUnsupported == \E query \in Statements : Route(query) = "unsupported" /\ Call(query)

Next ==
    \/ ExecCreateTable
    \/ ExecInsertInto
    \/ ExecSelect
    \/ ExecDropTable
    \/ ExecFileReading
    \/ ExecUnsupported

Spec == Init /\ [][Next]_vars

(***************************************************************************)
(* The caller of exec holds the array that a SELECT returned and may write *)
(* to it: to a cell of a returned row, or to the row list itself.  A       *)
(* returned row that is a stored row object changes the table with it.     *)
(***************************************************************************)
\* what the caller writes into a cell
Written == Null

\* result[0].values[r][0] = null, for a row r of the result held
MutateReturnedRow ==
    /\ outcome.status = "ok"
    /\ outcome.result # <<>>
    /\ \E r \in 1..Len(outcome.result[1].values) :
          /\ outcome.result[1].values[r] # <<>>
          /\ outcome.result[1].values[r][1] # Written
          /\ outcome' = [outcome EXCEPT !.result[1].values[r][1] = Written]
          /\ tables' =
                IF outcome.rowObjects[r] = 0 THEN tables
                ELSE [tables EXCEPT
                        ![outcome.table].rows[outcome.rowObjects[r]][1] = Written]
    /\ UNCHANGED <<lastQuery, prevTables, worksheet>>

\* result[0].values.pop(): the row list of the result is an array made by
\* select ([...table.rows], filter, map), never table.rows itself
MutateReturnedList ==
    /\ outcome.status = "ok"
    /\ outcome.result # <<>>
    /\ outcome.result[1].values # <<>>
    /\ outcome' =
          [outcome EXCEPT
              !.result[1].values = SubSeq(@, 1, Len(@) - 1),
              !.rowObjects = SubSeq(@, 1, Len(@) - 1)]
    /\ UNCHANGED <<tables, lastQuery, prevTables, worksheet>>

\* the statements this caller runs
CallerStatements ==
    {CreateAB, InsertNested, InsertNestedShort, SelectAll, SelectB, WhereGt, DropT}

\* one call of exec by this caller
ExecByCaller ==
    \E query \in CallerStatements :
        Route(query) \notin {"fileReading", "unsupported"} /\ Call(query)

NextCaller ==
    \/ ExecByCaller
    \/ MutateReturnedRow
    \/ MutateReturnedList

SpecCaller == Init /\ [][NextCaller]_vars

(***************************************************************************)
(* exec called with SELECT statements that list columns, on a table t      *)
(* (a INT, b TEXT) and a table u (n INT, N TEXT) whose two column names    *)
(* are equal ignoring case.                                                *)
(***************************************************************************)
\* CREATE TABLE u (n INT, N TEXT)
CreateDup ==
    <<"C", "R", "E", "A", "T", "E", " ", "T", "A", "B", "L", "E", " ", "u",
      " ", "(", "n", " ", "I", "N", "T", ",", " ", "N", " ", "T", "E", "X",
      "T", ")">>

\* INSERT INTO u VALUES ((7,'s'))
InsertDup ==
    <<"I", "N", "S", "E", "R", "T", " ", "I", "N", "T", "O", " ", "u", " ",
      "V", "A", "L", "U", "E", "S", " ", "(", "(", "7", ",", "'", "s", "'",
      ")", ")">>

\* SELECT N, n FROM u
SelectDup ==
    <<"S", "E", "L", "E", "C", "T", " ", "N", ",", " ", "n", " ", "F", "R",
      "O", "M", " ", "u">>

\* SELECT b, A FROM t
SelectSwap ==
    <<"S", "E", "L", "E", "C", "T", " ", "b", ",", " ", "A", " ", "F", "R",
      "O", "M", " ", "t">>

\* SELECT a, c FROM t WHERE a > 9
SelectMissing ==
    <<"S", "E", "L", "E", "C", "T", " ", "a", ",", " ", "c", " ", "F", "R",
      "O", "M", " ", "t", " ", "W", "H", "E", "R", "E", " ", "a", " ", ">",
      " ", "9">>

ColumnStatements ==
    {CreateAB, InsertNested, InsertNestedShort, DropT, SelectAll, SelectSwap,
     SelectMissing, CreateDup, InsertDup, SelectDup, SelectU}

\* one call of exec with one of these statements
ExecOnColumns ==
    \E query \in ColumnStatements :
        Route(query) \notin {"fileReading", "unsupported"} /\ Call(query)

NextColumns == ExecOnColumns

SpecColumns == Init /\ [][NextColumns]_vars

(***************************************************************************)
(* The worksheet in fallback mode (init found no DuckDB and made           *)
(* fallbackDb = new SimpleSQL(), isInitialized = isFallback = true):       *)
(* executeQuery reads the editor, splits it at semicolons and hands the    *)
(* statements to fallbackDb one after the other.  Here tables is           *)
(* fallbackDb.tables, lastQuery the trimmed editor text, and outcome what  *)
(* is shown, with ran the number of statements handed to exec.             *)
(***************************************************************************)
\* DuckDBWorksheet.parseStatements
parseStatements(query) ==
    LET NotBlank(stmt) == Trim(stmt) # <<>>
    IN  SelectSeq(Split(query, ";"), NotBlank)

KwShow == <<"s", "h", "o", "w">>
KwDescribe == <<"d", "e", "s", "c", "r", "i", "b", "e">>
KwExplain == <<"e", "x", "p", "l", "a", "i", "n">>
KwWith == <<"w", "i", "t", "h">>

\* DuckDBWorksheet.isSelectStatement
isSelectStatement(statement) ==
    LET Test(trimmed) ==
            \/ StartsWith(trimmed, KwSelect)
            \/ StartsWith(trimmed, KwShow)
            \/ StartsWith(trimmed, KwDescribe)
            \/ StartsWith(trimmed, KwExplain)
            \/ StartsWith(trimmed, KwWith)
    IN  Test(ToLowerCase(Trim(statement)))

\* lastResult = {columns, values, numRows} of a result that is not empty
LastResultOf(statement, result, lastResult) ==
    IF isSelectStatement(statement) /\ result # <<>>
    THEN <<[columns |-> result[1].columns, values |-> result[1].values,
            numRows |-> Len(result[1].values)]>>
    ELSE lastResult

RECURSIVE RunStatementsOn(_, _, _, _, _)
\* RunStatements that goes on with the next statement after a failure and
\* shows the last error
RunStatementsOn(T, statements, i, lastResult, ran) ==
    LET Ran(r) ==
            IF r.outcome.status = "error"
            THEN LET Rest(rest) ==
                         IF rest.outcome.status = "error" THEN rest
                         ELSE [rest EXCEPT !.outcome =
                                  [status |-> "error", error |-> r.outcome.error,
                                   ran |-> rest.outcome.ran]]
                 IN  Rest(RunStatementsOn(r.tables, statements, i + 1, lastResult,
                                          ran + 1))
            ELSE RunStatementsOn(r.tables, statements, i + 1,
                                 LastResultOf(Trim(statements[i]), r.outcome.result,
                                              lastResult),
                                 ran + 1)
    IN  IF i > Len(statements)
        THEN [tables |-> T,
              outcome |-> [status |-> "ok", result |-> lastResult, ran |-> ran]]
        ELSE IF Trim(statements[i]) = <<>>
             THEN RunStatementsOn(T, statements, i + 1, lastResult, ran)
        ELSE Ran(exec(T, Trim(statements[i])))

RECURSIVE RunStatements(_, _, _, _, _)
\* for (const statement of statements) { ... } of executeQuery from index i,
\* inside its try: the first exec that throws ends the loop in the catch
RunStatements(T, statements, i, lastResult, ran) ==
    LET Ran(r) ==
            IF r.outcome.status = "error"
            THEN [tables |-> r.tables,
                  outcome |-> [status |-> "error", error |-> r.outcome.error,
                               ran |-> ran + 1]]
            ELSE RunStatements(r.tables, statements, i + 1,
                               LastResultOf(Trim(statements[i]), r.outcome.result,
                                            lastResult),
                               ran + 1)
    IN  IF i > Len(statements)
        THEN [tables |-> T,
              outcome |-> [status |-> "ok", result |-> lastResult, ran |-> ran]]
        ELSE IF Trim(statements[i]) = <<>>
             THEN RunStatements(T, statements, i + 1, lastResult, ran)
        ELSE Ran(exec(T, Trim(statements[i])))

\* INSERT INTO u VALUES (7,(8,9))
InsertUPartial ==
    <<"I", "N", "S", "E", "R", "T", " ", "I", "N", "T", "O", " ", "u", " ",
      "V", "A", "L", "U", "E", "S", " ", "(", "7", ",", "(", "8", ",", "9",
      ")", ")">>

\* the statements a batch is made of
BatchStatements == {CreateU, InsertU, InsertUPartial, SelectU, DropU}

\* the most statements in a batch
MaxBatch == 2

BatchSequences == UNION {[1..n -> BatchStatements] : n \in 1..MaxBatch}

RECURSIVE BatchText(_)
\* the editor text of a batch: each statement ended by a semicolon, one per
\* line
BatchText(seq) ==
    IF seq = <<>> THEN <<>>
    ELSE Head(seq) \o <<";">> \o (IF Len(seq) > 1 THEN <<"\n">> ELSE <<>>)
         \o BatchText(Tail(seq))

\* what executeQuery does with the trimmed editor text query
Execute(query) ==
    LET Done(r) ==
            /\ \A n \in DOMAIN r.tables : Len(r.tables[n].rows) <= MaxRows
            /\ tables' = r.tables
            /\ outcome' = r.outcome
            /\ lastQuery' = query
            /\ prevTables' = tables
            /\ UNCHANGED worksheet
    IN  Done(RunStatements(tables, parseStatements(query), 1, <<>>, 0))

\* executeQuery with a query in the editor
ExecuteQuery ==
    \E seq \in BatchSequences :
        Trim(BatchText(seq)) # <<>> /\ Execute(Trim(BatchText(seq)))

\* executeQuery with nothing but white space in the editor:
\* showError('Please enter a SQL query')
ExecuteBlankQuery ==
    \E value \in {<<>>, <<" ", "\n">>} :
        /\ Trim(value) = <<>>
        /\ outcome' = [status |-> "error", error |-> [kind |-> "NoQuery"], ran |-> 0]
        /\ lastQuery' = Trim(value)
        /\ prevTables' = tables
        /\ UNCHANGED <<tables, worksheet>>

NextWorksheet ==
    \/ ExecuteQuery
    \/ ExecuteBlankQuery

SpecWorksheet == Init /\ [][NextWorksheet]_vars

(***************************************************************************)
(* parseValue applied to a literal token.  lastQuery is the token and      *)
(* outcome the scalar that parseValue returns for it.                      *)
(***************************************************************************)
\* the characters the tokens are made of
TokenChars == {"-", "0", "1", "9", ".", "e"}

\* the longest token made of them
MaxTokenLen == 4

\* tokens of words and of other digits
WordTokens ==
    {<<"n", "u", "l", "l">>, <<"N", "U", "L", "L">>, <<"N", "u", "l", "l">>,
     <<"n", "u", "l", "l", "s">>, <<"t", "r", "u", "e">>, <<"f", "a", "l", "s", "e">>,
     <<"T", "R", "U", "E">>, <<"T", "r", "u", "e">>, <<"F", "A", "L", "S", "E">>,
     <<"1", "2", "3">>, <<"1", ".", "5">>, <<"1", "e", "3">>, <<"1", " ", "2">>,
     <<"-", "2", "0", "4", "8">>, <<"3", ".", "1", "4">>, <<"x">>}

Tokens == WordTokens \cup UNION {[1..n -> TokenChars] : n \in 0..MaxTokenLen}

InitToken ==
    /\ tables = EmptyCatalog
    /\ prevTables = EmptyCatalog
    /\ lastQuery \in Tokens
    /\ outcome = [status |-> "none"]
    /\ worksheet = FallbackWorksheet

\* this.parseValue(current.trim())
ApplyParseValue ==
    /\ outcome.status = "none"
    /\ outcome' = [status |-> "ok", result |-> parseValue(lastQuery)]
    /\ UNCHANGED <<tables, lastQuery, prevTables, worksheet>>

NextToken == ApplyParseValue

SpecToken == InitToken /\ [][NextToken]_vars

(***************************************************************************)
(* parseValuesSets applied to the text captured after VALUES.  lastQuery   *)
(* is that text and outcome the value sets that parseValuesSets returns.   *)
(***************************************************************************)
\* the characters the texts are made of
ValuesChars == {"'", ",", "(", ")", "\\", "a"}

\* the longest text made of them
MaxValuesLen == 5

\* 'a,b' with more beside it
LongerValuesTexts ==
    {<<"(", "'", "a", ",", "a", "'", ",", "a", ")">>,
     <<"'", "a", "\\", "'", ",", "a", "'", ",", "a">>}

ValuesTexts == LongerValuesTexts \cup UNION {[1..n -> ValuesChars] : n \in 0..MaxValuesLen}

InitValues ==
    /\ tables = EmptyCatalog
    /\ prevTables = EmptyCatalog
    /\ lastQuery \in ValuesTexts
    /\ outcome = [status |-> "none"]
    /\ worksheet = FallbackWorksheet

\* const valuesSets = this.parseValuesSets(valuesStr)
ApplyParseValuesSets ==
    /\ outcome.status = "none"
    /\ outcome' = [status |-> "ok", result |-> parseValuesSets(lastQuery)]
    /\ UNCHANGED <<tables, lastQuery, prevTables, worksheet>>

NextValues == ApplyParseValuesSets

SpecValues == InitValues /\ [][NextValues]_vars

(***************************************************************************)
(* The worksheet under its events.  JavaScript runs one task at a time to  *)
(* its end; an async function runs on in the task that called it up to its *)
(* next await and is resumed by a later task, when the awaited promise is  *)
(* settled.  A step below is one such task: the constructor has run (init  *)
(* up to its first await, then bindEvents); the tasks are the execute      *)
(* events, the settling of what init awaits and the settling of what an    *)
(* executeQuery invocation awaits.  Here tables is fallbackDb.tables,      *)
(* lastQuery the trimmed editor text of the last execute event and outcome *)
(* what the worksheet shows.                                               *)
(***************************************************************************)
\* the constructor with window.duckdb loaded: init stands at its first await
\* (await duckdb.selectBundle), isInitialized and isFallback are false
LoadingWorksheet ==
    [isInitialized |-> FALSE, isFallback |-> FALSE, initAt |-> "selectBundle",
     calls |-> {}, log |-> <<>>, events |-> 0]

\* what an awaited connection.query of DuckDB gives when it resolves
DuckDBResult == <<[engine |-> "DuckDB"]>>

\* executeQuery that awaits the engine call in the fallback branch as well
AwaitsEngineAlways(isFallback) == TRUE

\* whether executeQuery awaits its engine call: the fallback branch calls
\* this.fallbackDb.exec and this.fallbackDb.run plainly, the DuckDB branch
\* awaits this.connection.query
AwaitsEngine(isFallback) == ~isFallback

RECURSIVE RunCall(_, _, _, _, _, _)
\* the for loop of invocation id of executeQuery from statement i, up to
\* its next await or through to the end of the invocation
RunCall(w, T, id, statements, i, lastResult) ==
    LET Dispatched(engine) ==
            [w EXCEPT !.log = Append(@, [call |-> id, index |-> i,
                                         engine |-> engine])]
        Awaiting(w2, T2, awaited) ==
            [worksheet |->
                [w2 EXCEPT !.calls = @ \cup {[id |-> id, statements |-> statements,
                                              i |-> i, lastResult |-> lastResult,
                                              awaited |-> awaited]}],
             tables |-> T2,
             outcome |-> [status |-> "loading"]]
        Ran(w2, r) ==
            IF r.outcome.status = "error"
            THEN [worksheet |-> w2, tables |-> r.tables,
                  outcome |-> [status |-> "error", error |-> r.outcome.error]]
            ELSE IF AwaitsEngine(w.isFallback)
                 THEN Awaiting(w2, r.tables, r.outcome.result)
            ELSE RunCall(w2, r.tables, id, statements, i + 1,
                         LastResultOf(Trim(statements[i]), r.outcome.result,
                                      lastResult))
    IN  IF i > Len(statements)
        THEN [worksheet |-> w, tables |-> T,
              outcome |-> [status |-> "ok", result |-> lastResult]]
        ELSE IF Trim(statements[i]) = <<>>
             THEN RunCall(w, T, id, statements, i + 1, lastResult)
        ELSE IF w.isFallback
             THEN Ran(Dispatched("SimpleSQL"), exec(T, Trim(statements[i])))
        ELSE Awaiting(Dispatched("DuckDB"), T, DuckDBResult)

\* lastResult after the await of the call has given its value
ResumedLastResult(isFallback, call) ==
    IF isFallback
    THEN LastResultOf(Trim(call.statements[call.i]), call.awaited, call.lastResult)
    ELSE IF isSelectStatement(Trim(call.statements[call.i])) THEN call.awaited
    ELSE call.lastResult

\* DuckDBWorksheet.executeQuery from its call to its first await or its end,
\* with value the text in the editor
executeQuery(w, T, id, value) ==
    IF ~w.isInitialized
    THEN [worksheet |-> w, tables |-> T,
          outcome |-> [status |-> "error", error |-> [kind |-> "NotInitialized"]]]
    ELSE IF Trim(value) = <<>>
         THEN [worksheet |-> w, tables |-> T,
               outcome |-> [status |-> "error", error |-> [kind |-> "NoQuery"]]]
    ELSE RunCall(w, T, id, parseStatements(Trim(value)), 1, <<>>)

\* the texts the editor holds at an execute event
EditorValues ==
    {<<" ">>, BatchText(<<CreateU, InsertU>>), BatchText(<<InsertU, SelectU>>),
     BatchText(<<InsertUPartial, DropU>>)}

\* the most execute events
MaxEvents == 3

\* new DuckDBWorksheet(): without window.duckdb init has thrown and fallen
\* back before its first await, with it init stands at that await
InitEvents ==
    /\ tables = EmptyCatalog
    /\ prevTables = EmptyCatalog
    /\ lastQuery = <<>>
    /\ outcome = [status |-> "none"]
    /\ worksheet \in {FallbackWorksheet, LoadingWorksheet}

\* the task of one execute event
ExecuteEvent(value) ==
    LET Done(r) ==
            /\ \A n \in DOMAIN r.tables : Len(r.tables[n].rows) <= MaxRows
            /\ tables' = r.tables
            /\ outcome' = r.outcome
            /\ worksheet' = r.worksheet
            /\ lastQuery' = Trim(value)
            /\ prevTables' = tables
    IN  /\ worksheet.events < MaxEvents
        /\ Done(executeQuery([worksheet EXCEPT !.events = @ + 1], tables,
                             worksheet.events + 1, value))

\* click on executeBtn, which is disabled until init has set isInitialized
ClickExecute ==
    \E value \in EditorValues : worksheet.isInitialized /\ ExecuteEvent(value)

\* keydown in queryEditor: if (e.ctrlKey && e.key === 'Enter') executeQuery();
\* any other key leaves the worksheet as it is
CtrlEnter ==
    \E value \in EditorValues, ctrlKey \in BOOLEAN, key \in {"Enter", "a"} :
        ctrlKey /\ key = "Enter" /\ ExecuteEvent(value)

\* what init awaits resolves: selectBundle, then instantiate, then connect,
\* after which isInitialized = true and isFallback = false
InitAwaitResolves ==
    /\ worksheet.initAt # "done"
    /\ worksheet' =
          IF worksheet.initAt = "selectBundle"
          THEN [worksheet EXCEPT !.initAt = "instantiate"]
          ELSE IF worksheet.initAt = "instantiate"
               THEN [worksheet EXCEPT !.initAt = "connect"]
          ELSE [worksheet EXCEPT !.initAt = "done", !.isInitialized = TRUE,
                                 !.isFallback = FALSE]
    /\ UNCHANGED <<tables, lastQuery, outcome, prevTables>>

\* what init awaits rejects: the catch makes fallbackDb = new SimpleSQL() and
\* sets isInitialized = true and isFallback = true
InitAwaitRejects ==
    /\ worksheet.initAt # "done"
    /\ worksheet' = [worksheet EXCEPT !.initAt = "done", !.isInitialized = TRUE,
                                      !.isFallback = TRUE]
    /\ tables' = EmptyCatalog
    /\ prevTables' = tables
    /\ UNCHANGED <<lastQuery, outcome>>

\* what an invocation of executeQuery awaits resolves: the invocation goes
\* on with its next statement
QueryResolves ==
    LET Done(r) ==
            /\ \A n \in DOMAIN r.tables : Len(r.tables[n].rows) <= MaxRows
            /\ tables' = r.tables
            /\ outcome' = r.outcome
            /\ worksheet' = r.worksheet
            /\ prevTables' = tables
            /\ UNCHANGED lastQuery
    IN  \E call \in worksheet.calls :
            Done(RunCall([worksheet EXCEPT !.calls = @ \ {call}], tables, call.id,
                         call.statements, call.i + 1,
                         ResumedLastResult(worksheet.isFallback, call)))

\* the awaited connection.query rejects: the invocation ends in its catch
QueryRejects ==
    \E call \in worksheet.calls :
        /\ ~worksheet.isFallback
        /\ worksheet' = [worksheet EXCEPT !.calls = @ \ {call}]
        /\ outcome' = [status |-> "error", error |-> [kind |-> "DuckDBError"]]
        /\ prevTables' = tables
        /\ UNCHANGED <<tables, lastQuery>>

NextEvents ==
    \/ ClickExecute
    \/ CtrlEnter
    \/ InitAwaitResolves
    \/ InitAwaitRejects
    \/ QueryResolves
    \/ QueryRejects

SpecEvents == InitEvents /\ [][NextEvents]_vars

(***************************************************************************)
(* The properties.  They speak of the last call: lastQuery ran on the      *)
(* catalog prevTables, left the catalog tables and ended with outcome.     *)
(***************************************************************************)
NameT == <<"t">>

IntegerValue(i) == [k |-> "number", n |-> i, d |-> 1]
TextValue(s) == [k |-> "text", s |-> s]

RowOneX == <<IntegerValue(1), TextValue(<<"x">>)>>
RowTwoY == <<IntegerValue(2), TextValue(<<"y">>)>>
RowThreeZ == <<IntegerValue(3), TextValue(<<"z">>)>>

ColumnsAB ==
    <<[name |-> <<"a">>, type |-> <<"I", "N", "T">>],
      [name |-> <<"b">>, type |-> <<"T", "E", "X", "T">>]>>
ColumnsA == <<[name |-> <<"a">>, type |-> <<"T", "E", "X", "T">>]>>
ColumnsN == <<[name |-> <<"n">>, type |-> <<"I", "N", "T">>]>>

\* the last call ran on a catalog that held table t with these many columns
RanOnT(query, arity) ==
    /\ lastQuery = query
    /\ NameT \in DOMAIN prevTables
    /\ Len(prevTables[NameT].columns) = arity

Succeeded == outcome.status = "ok"
Failed(kind) == outcome.status = "error" /\ outcome.error.kind = kind

\* table t holds what it held before the call, followed by these rows
Appended(rows) ==
    /\ NameT \in DOMAIN tables
    /\ tables[NameT].columns = prevTables[NameT].columns
    /\ tables[NameT].rows = prevTables[NameT].rows \o rows

\* C1: a multi-tuple INSERT whose tuples all have as many literals as the
\* table has columns succeeds and appends one row per tuple, in order:
\* (1,'x'),(2,'y') into the 2-column table t appends [1,"x"] and [2,"y"].
C1_MultiTupleInsertAppendsEachTuple ==
    RanOnT(InsertPair, 2) => Succeeded /\ Appended(<<RowOneX, RowTwoY>>)

\* C2: an INSERT of one tuple (v1,...,vk) into a table of n columns raises
\* ColumnCountMismatch when k # n and appends the one row [v1,...,vn] when
\* k = n; the commas of the tuple never split it into several rows.
C2_SingleTupleIsOneRow ==
    /\ RanOnT(InsertOne, 2) => Succeeded /\ Appended(<<RowThreeZ>>)
    /\ RanOnT(InsertOne, 1) => Failed("ColumnCountMismatch") /\ Appended(<<>>)
    /\ RanOnT(InsertUpper, 1) => Succeeded /\ Appended(<<<<IntegerValue(5)>>>>)
    /\ RanOnT(InsertUpper, 2) => Failed("ColumnCountMismatch") /\ Appended(<<>>)

\* C3: partial commit: when tuple k of a multi-tuple INSERT is the first of
\* the wrong arity, the statement fails with ColumnCountMismatch and the
\* table holds its prior rows followed by tuples 1..k-1: (1,'x'),(2) into
\* the 2-column table t fails and leaves [1,"x"] appended.
C3_PartialCommitKeepsEarlierTuples ==
    RanOnT(InsertShort, 2) => Failed("ColumnCountMismatch") /\ Appended(<<RowOneX>>)

\* C4: in every reachable state every row of every table is as long as the
\* table's column list.
C4_RowLengthIsColumnCount ==
    \A name \in DOMAIN tables :
        \A i \in 1..Len(tables[name].rows) :
            Len(tables[name].rows[i]) = Len(tables[name].columns)

\* C4 witness: a table re-created with another column count holds rows, and
\* an INSERT has just failed midway after pushing a row.
C4_Witness ==
    /\ RanOnT(InsertNestedShort, 2)
    /\ Failed("ColumnCountMismatch")
    /\ Len(tables[NameT].rows) = Len(prevTables[NameT].rows) + 1
    /\ Len(prevTables[NameT].rows) >= 1

NameU == <<"u">>

ColumnNames(columns) == [i \in 1..Len(columns) |-> columns[i].name]

\* what the last SELECT returned
Selected == outcome.result[1]

\* C5: after CREATE TABLE t (c1 [type1], ..., cn [typen]) the table has the
\* columns c1..cn in declared order, each with its type or "TEXT" when the
\* type is omitted, and no rows; SELECT * FROM t on it returns the column
\* names in declared order and zero rows.
C5_CreateThenSelectStar ==
    /\ lastQuery = CreateAB =>
          Succeeded /\ tables[NameT] = [columns |-> ColumnsAB, rows |-> <<>>]
    /\ lastQuery = CreateUpper =>
          Succeeded /\ tables[NameT] = [columns |-> ColumnsA, rows |-> <<>>]
    /\ lastQuery = CreateU =>
          Succeeded /\ tables[NameU] = [columns |-> ColumnsN, rows |-> <<>>]
    /\ /\ lastQuery \in {SelectAll, SelectUpper}
       /\ NameT \in DOMAIN prevTables
       /\ prevTables[NameT].rows = <<>>
       => /\ Succeeded
          /\ Selected = [columns |-> ColumnNames(prevTables[NameT].columns),
                         values |-> <<>>]

\* C5 witness: SELECT * on the freshly created t (a INT, b TEXT)
C5_Witness ==
    /\ lastQuery = SelectAll
    /\ Succeeded
    /\ tables[NameT] = [columns |-> ColumnsAB, rows |-> <<>>]
    /\ Selected = [columns |-> <<<<"a">>, <<"b">>>>, values |-> <<>>]

RECURSIVE ProjectSecond(_)
\* the rows, each cut down to its second value
ProjectSecond(rows) ==
    IF rows = <<>> THEN <<>> ELSE <<<<Head(rows)[2]>>>> \o ProjectSecond(Tail(rows))

\* the row's first value is a number greater than 1
FirstIsNumberAboveOne(row) == row[1].k = "number" /\ row[1].n > row[1].d

\* the row's first value, read as a JS number, is greater than 1: a number
\* above 1, or a Text such as "2." that Number() reads as one
FirstReadsAboveOne(row) ==
    \/ row[1].k = "number" /\ row[1].n > row[1].d
    \/ /\ row[1].k = "text"
       /\ StringToNumber(row[1].s).k = "number"
       /\ StringToNumber(row[1].s).n > StringToNumber(row[1].s).d

\* C6 as stated: SELECT b FROM t WHERE a > 1 returns exactly the rows whose
\* a is a number greater than 1, projected to b, in insertion order.
C6_OnlyNumbersAboveOne ==
    RanOnT(SelectB, 2) =>
        /\ Succeeded
        /\ Selected = [columns |-> <<<<"b">>>>,
                       values |-> ProjectSecond(SelectSeq(prevTables[NameT].rows,
                                                          FirstIsNumberAboveOne))]

\* C6 amended: SELECT b FROM t WHERE a > 1 returns exactly the rows whose a
\* JS reads as a number greater than 1 (a number above 1, or a Text that
\* Number() converts to one, such as "2."), projected to b, in insertion
\* order; SELECT * with the same WHERE returns those rows whole: rows are
\* filtered, then projected, never reordered, duplicated or dropped.
C6_RowsReadingAboveOne ==
    /\ RanOnT(SelectB, 2) =>
          /\ Succeeded
          /\ Selected = [columns |-> <<<<"b">>>>,
                         values |-> ProjectSecond(SelectSeq(prevTables[NameT].rows,
                                                            FirstReadsAboveOne))]
    /\ lastQuery = WhereGt /\ NameT \in DOMAIN prevTables =>
          /\ Succeeded
          /\ Selected = [columns |-> ColumnNames(prevTables[NameT].columns),
                         values |-> SelectSeq(prevTables[NameT].rows,
                                              FirstReadsAboveOne)]

\* C6 witness: of three rows the one with a = 1 is left out, and the rows
\* with a = 2 and a = "2." come back as [y] and [w]
C6_Witness ==
    /\ RanOnT(SelectB, 2)
    /\ Succeeded
    /\ prevTables[NameT].rows =
          <<RowOneX, RowTwoY, <<TextValue(<<"2", ".">>), TextValue(<<"w">>)>>>>
    /\ Selected.values = <<<<TextValue(<<"y">>)>>, <<TextValue(<<"w">>)>>>>

\* every row of t held an Integer in column a before the call
HeldIntegersInA ==
    /\ NameT \in DOMAIN prevTables
    /\ \A i \in 1..Len(prevTables[NameT].rows) :
          /\ prevTables[NameT].rows[i][1].k = "number"
          /\ prevTables[NameT].rows[i][1].d = 1

\* the last SELECT * returned all columns and exactly the rows that pass
ReturnedRowsWhere(Test(_)) ==
    /\ Succeeded
    /\ Selected = [columns |-> ColumnNames(prevTables[NameT].columns),
                   values |-> SelectSeq(prevTables[NameT].rows, Test)]

AEqualsOne(row) == row[1].n = 1
AAboveOne(row) == row[1].n > 1
ABelowTwo(row) == row[1].n < 2
AAtLeastTwo(row) == row[1].n >= 2
AAtMostOne(row) == row[1].n <= 1
ADiffersFromOne(row) == row[1].n # 1

\* the six operators the WHERE regular expression reads: on Integers the
\* rows returned are exactly those for which the comparison is true
SixOperatorsCompare ==
    /\ lastQuery = WhereEq /\ HeldIntegersInA => ReturnedRowsWhere(AEqualsOne)
    /\ lastQuery = WhereGt /\ HeldIntegersInA => ReturnedRowsWhere(AAboveOne)
    /\ lastQuery = WhereLt /\ HeldIntegersInA => ReturnedRowsWhere(ABelowTwo)
    /\ lastQuery = WhereGe /\ HeldIntegersInA => ReturnedRowsWhere(AAtLeastTwo)
    /\ lastQuery = WhereLe /\ HeldIntegersInA => ReturnedRowsWhere(AAtMostOne)
    /\ lastQuery = WhereLtGt /\ HeldIntegersInA => ReturnedRowsWhere(ADiffersFromOne)

\* C7: each of the seven operators =, >, <, >=, <=, != and <> is read: for
\* WHERE a op literal on a column of Integers the rows returned are exactly
\* those for which the comparison is true; WHERE a != 1 and WHERE a <> 1
\* both return exactly the rows whose a differs from 1.
C7_SevenOperatorsCompare ==
    /\ SixOperatorsCompare
    /\ lastQuery = WhereNe /\ HeldIntegersInA => ReturnedRowsWhere(ADiffersFromOne)

RECURSIVE ProjectFirst(_)
\* the rows, each cut down to its first value
ProjectFirst(rows) ==
    IF rows = <<>> THEN <<>> ELSE <<<<Head(rows)[1]>>>> \o ProjectFirst(Tail(rows))

\* C8: a WHERE text that is no comparison (WHERE true), or one that names a
\* column the table does not declare (WHERE c = 1), raises no error and
\* returns every row of the table, projected, as if there were no WHERE.
C8_PermissiveWhereKeepsAllRows ==
    /\ lastQuery = WhereTrue /\ NameT \in DOMAIN prevTables =>
          /\ Succeeded
          /\ Selected = [columns |-> ColumnNames(prevTables[NameT].columns),
                         values |-> prevTables[NameT].rows]
    /\ lastQuery = WhereUnknownColumn /\ NameT \in DOMAIN prevTables =>
          /\ Succeeded
          /\ Selected = [columns |-> <<<<"a">>>>,
                         values |-> ProjectFirst(prevTables[NameT].rows)]

\* C8 witness: WHERE c = 1 on a table of three rows that has no column c
C8_Witness ==
    /\ RanOnT(WhereUnknownColumn, 2)
    /\ Succeeded
    /\ Len(prevTables[NameT].rows) = 3
    /\ Len(Selected.values) = 3

\* the well-formed SELECT, INSERT and DROP statements that name table t
StatementsNamingT ==
    {SelectAll, SelectUpper, SelectB, WhereEq, WhereGt, WhereLt, WhereGe, WhereLe,
     WhereNe, WhereLtGt, WhereTrue, WhereUnknownColumn, WhereQuoted, InsertPair,
     InsertOne, InsertShort, InsertNested, InsertNestedShort, InsertUpper, DropT,
     DropUpper}

\* C9: a successful DROP TABLE t removes the table with its rows; while t
\* is absent every SELECT, INSERT or DROP naming t (so also a DROP of the
\* absent table) fails with UnknownTable and leaves it absent; t comes back
\* only by CREATE TABLE t, and then with zero rows.
C9_DroppedTableIsGone ==
    /\ lastQuery \in {DropT, DropUpper} /\ NameT \in DOMAIN prevTables =>
          Succeeded /\ NameT \notin DOMAIN tables
    /\ lastQuery \in StatementsNamingT /\ NameT \notin DOMAIN prevTables =>
          /\ Failed("UnknownTable")
          /\ outcome.error.table = NameT
          /\ NameT \notin DOMAIN tables
    /\ NameT \notin DOMAIN prevTables /\ NameT \in DOMAIN tables =>
          /\ lastQuery \in {CreateAB, CreateUpper}
          /\ tables[NameT].rows = <<>>

\* C9 witness: DROP TABLE t has just removed a table that held rows
C9_Witness ==
    /\ lastQuery = DropT
    /\ Succeeded
    /\ NameT \in DOMAIN prevTables
    /\ Len(prevTables[NameT].rows) >= 2
    /\ NameT \notin DOMAIN tables

\* C10: table names are case-insensitive: the catalog is keyed by the
\* lower-cased name, so it never holds two names equal ignoring case, and
\* CREATE, INSERT, SELECT and DROP written with T address the table t, as
\* the statements written with t address a table created as T.
C10_TableNamesIgnoreCase ==
    /\ \A n \in DOMAIN tables : n = ToLowerCase(n)
    /\ \A n, m \in DOMAIN tables : ToLowerCase(n) = ToLowerCase(m) => n = m
    /\ lastQuery = CreateUpper =>
          Succeeded /\ NameT \in DOMAIN tables /\ tables[NameT].columns = ColumnsA
    /\ lastQuery = SelectUpper /\ NameT \in DOMAIN prevTables =>
          Succeeded /\ Selected.values = prevTables[NameT].rows
    /\ RanOnT(InsertUpper, 1) => Succeeded /\ Appended(<<<<IntegerValue(5)>>>>)
    /\ lastQuery = DropUpper /\ NameT \in DOMAIN prevTables =>
          Succeeded /\ NameT \notin DOMAIN tables
    /\ lastQuery = SelectAll /\ NameT \in DOMAIN prevTables =>
          Succeeded /\ Selected.values = prevTables[NameT].rows

\* C10 witness: SELECT * FROM t reads the rows of the table created by
\* create table T(a) and filled by insert into T
C10_Witness ==
    /\ lastQuery = SelectAll
    /\ Succeeded
    /\ tables[NameT].columns = ColumnsA
    /\ Selected.values = <<<<IntegerValue(5)>>, <<IntegerValue(5)>>>>

\* C11: CREATE TABLE on a name the catalog already holds (ignoring case)
\* succeeds and replaces the table: afterwards it has exactly the newly
\* declared columns and zero rows, and every other table is unchanged.
C11_CreateReplacesExisting ==
    /\ lastQuery = CreateAB /\ NameT \in DOMAIN prevTables =>
          /\ Succeeded
          /\ tables[NameT] = [columns |-> ColumnsAB, rows |-> <<>>]
    /\ lastQuery = CreateUpper /\ NameT \in DOMAIN prevTables =>
          /\ Succeeded
          /\ tables[NameT] = [columns |-> ColumnsA, rows |-> <<>>]
    /\ lastQuery = CreateU /\ NameU \in DOMAIN prevTables =>
          /\ Succeeded
          /\ tables[NameU] = [columns |-> ColumnsN, rows |-> <<>>]
    /\ lastQuery \in {CreateAB, CreateUpper} =>
          /\ DOMAIN tables = DOMAIN prevTables \cup {NameT}
          /\ \A n \in DOMAIN prevTables \ {NameT} : tables[n] = prevTables[n]
    /\ lastQuery = CreateU =>
          /\ DOMAIN tables = DOMAIN prevTables \cup {NameU}
          /\ \A n \in DOMAIN prevTables \ {NameU} : tables[n] = prevTables[n]

\* C11 witness: create table T(a) has replaced the table t (a INT, b TEXT)
\* that held rows, while table u keeps its rows
C11_Witness ==
    /\ lastQuery = CreateUpper
    /\ Succeeded
    /\ NameT \in DOMAIN prevTables
    /\ prevTables[NameT].columns = ColumnsAB
    /\ Len(prevTables[NameT].rows) >= 2
    /\ tables[NameT] = [columns |-> ColumnsA, rows |-> <<>>]
    /\ NameU \in DOMAIN tables
    /\ Len(tables[NameU].rows) >= 1

\* the error of the SELECT handler that carries the guidance text
FailedUnsupportedFeature ==
    Failed("UnsupportedFeature") /\ outcome.error = AdvancedSelectUnsupported

\* C12: a statement beginning with select whose FROM source is no plain
\* table identifier, such as the function call read_csv_auto('f.csv') or a
\* quoted URL, or that has no FROM at all, fails with the UnsupportedFeature
\* error, never with UnknownTable and never by returning rows.
C12_AdvancedSelectIsUnsupportedFeature ==
    lastQuery \in {SelectReadCsv, SelectUrl, SelectNoFrom} =>
        FailedUnsupportedFeature /\ tables = prevTables

\* the two of these statements that do fail with UnsupportedFeature: the
\* quoted URL and the SELECT without FROM
QuotedSourceIsUnsupportedFeature ==
    lastQuery \in {SelectUrl, SelectNoFrom} =>
        FailedUnsupportedFeature /\ tables = prevTables

\* the last call threw this error and left the catalog as it was
ThrewUnchanged(error) ==
    /\ outcome.status = "error"
    /\ outcome.error = error
    /\ tables = prevTables

\* C13: exec routes by the case-insensitive prefix of the trimmed statement:
\* create table, insert into, select and drop table reach their handlers
\* (a malformed statement with the prefix gets its handler's error); an
\* unmatched statement that begins with read_csv_auto( or read_parquet(
\* fails with the file-reading UnsupportedFeature error, any other unmatched
\* statement with the generic unrecognized-statement error, a different
\* one; in both cases the catalog is unchanged.
C13_DispatcherRoutesByPrefix ==
    /\ lastQuery \in {ReadCsv, ReadParquetUpper} =>
          ThrewUnchanged(FileReadingUnsupported) /\ Failed("UnsupportedFeature")
    /\ lastQuery \in {Vacuum, CreateTwoSpaces} =>
          ThrewUnchanged(UnsupportedQueryType) /\ ~Failed("UnsupportedFeature")
    /\ lastQuery = CreateMalformed => ThrewUnchanged(SyntaxError("CREATE TABLE"))
    /\ lastQuery = InsertMalformed => ThrewUnchanged(SyntaxError("INSERT"))
    /\ lastQuery = DropMalformed => ThrewUnchanged(SyntaxError("DROP TABLE"))
    /\ lastQuery \in {SelectGlued, SelectNoFrom} =>
          ThrewUnchanged(AdvancedSelectUnsupported)
    /\ lastQuery \in {CreateAB, CreateUpper, CreateU} => Succeeded
    /\ lastQuery \in {SelectAll, SelectUpper} /\ NameT \in DOMAIN prevTables =>
          Succeeded /\ Selected.values = prevTables[NameT].rows
    /\ lastQuery \in {DropT, DropUpper} /\ NameT \in DOMAIN prevTables =>
          Succeeded /\ NameT \notin DOMAIN tables
    /\ lastQuery = InsertU /\ NameU \in DOMAIN prevTables =>
          Succeeded /\ tables[NameU].rows =
                          Append(prevTables[NameU].rows, <<IntegerValue(7)>>)

\* C13 witness: READ_PARQUET('f.parquet'), written in upper case after two
\* spaces, is refused as file reading and the tables keep their rows
C13_Witness ==
    /\ lastQuery = ReadParquetUpper
    /\ ThrewUnchanged(FileReadingUnsupported)
    /\ NameT \in DOMAIN tables
    /\ Len(tables[NameT].rows) >= 1

\* the statements of the pool with text after a complete statement
TrailingTextStatements == {DropJunk, SelectJunk}

\* C14: exec succeeds only on statements that are exactly one of the four
\* statement shapes; a valid statement followed by extra text, such as
\* DROP TABLE t junk, fails with UnsupportedFeature or SyntaxError and
\* changes nothing, also when the table it names exists.
C14_OnlyExactShapesSucceed ==
    lastQuery \in TrailingTextStatements /\ NameT \in DOMAIN prevTables =>
        /\ Failed("UnsupportedFeature") \/ Failed("SyntaxError")
        /\ tables = prevTables

\* what the code does with them on a catalog that holds t: the trailing
\* text is not read, DROP TABLE t junk drops t and SELECT * FROM t junk
\* returns the rows of t
TrailingTextIsNotRead ==
    /\ lastQuery = DropJunk /\ NameT \in DOMAIN prevTables =>
          Succeeded /\ NameT \notin DOMAIN tables
    /\ lastQuery = SelectJunk /\ NameT \in DOMAIN prevTables =>
          Succeeded /\ Selected.values = prevTables[NameT].rows

\* the statements of the pool that select with an explicit column list
ColumnListStatements == {SelectB}

\* C15: the result of a SELECT, with * or with a column list, shares no row
\* and no list with the catalog: writing to a returned row or to the
\* returned row list never changes the stored rows.
C15_ResultsAreCopiedOut ==
    [][MutateReturnedRow \/ MutateReturnedList => tables' = tables]_vars

\* what holds: writing to the returned row list, or to a row returned for
\* an explicit column list, leaves the catalog as it is
ProjectedRowsAreCopiedOut ==
    [][\/ MutateReturnedList
       \/ MutateReturnedRow /\ lastQuery \in ColumnListStatements
       => tables' = tables]_vars

RECURSIVE After(_, _, _)
\* the catalog after statements 1..k of seq ran one after the other on T
After(T, seq, k) ==
    IF k = 0 THEN T ELSE exec(After(T, seq, k - 1), seq[k]).tables

\* what statement k of seq gives when run after statements 1..k-1
OutcomeOf(T, seq, k) == exec(After(T, seq, k - 1), seq[k]).outcome

\* the statements of seq that fail when run in order on T
Failing(T, seq) == {k \in 1..Len(seq) : OutcomeOf(T, seq, k).status = "error"}

\* the first of them
FirstFailing(T, seq) ==
    CHOOSE k \in Failing(T, seq) : \A j \in Failing(T, seq) : k <= j

\* what is shown after the batch seq ran on the catalog prevTables
BatchRanInOrder(seq) ==
    IF Failing(prevTables, seq) = {}
    THEN /\ Succeeded
         /\ outcome.ran = Len(seq)
         /\ tables = After(prevTables, seq, Len(seq))
    ELSE /\ outcome.status = "error"
         /\ outcome.error = OutcomeOf(prevTables, seq, FirstFailing(prevTables, seq)).error
         /\ outcome.ran = FirstFailing(prevTables, seq)
         /\ tables = After(prevTables, seq, FirstFailing(prevTables, seq))

\* C16: the statements of a semicolon-separated batch run in textual order,
\* each on the catalog the earlier ones left; when statement k is the first
\* to fail, statements k+1..n are not run, the error of k is shown, and
\* the catalog is what statements 1..k-1 and the partial commit of k left.
C16_BatchStopsAtFirstFailure ==
    \A seq \in BatchSequences :
        lastQuery = BatchText(seq) => BatchRanInOrder(seq)

\* C16 witness: INSERT INTO u VALUES (7,(8,9)); DROP TABLE u on a table u
\* that holds rows: the INSERT commits [7] and fails, the DROP is not run
C16_Witness ==
    /\ lastQuery = BatchText(<<InsertUPartial, DropU>>)
    /\ Failed("ColumnCountMismatch")
    /\ outcome.ran = 1
    /\ NameU \in DOMAIN prevTables
    /\ Len(prevTables[NameU].rows) >= 1
    /\ tables[NameU].rows = Append(prevTables[NameU].rows, <<IntegerValue(7)>>)

\* a batch whose statements all succeed: CREATE TABLE u (n INT); INSERT
\* INTO u VALUES (7) leaves u with the one row, whatever u held before
BatchCreatesThenInserts ==
    lastQuery = BatchText(<<CreateU, InsertU>>) =>
        /\ Succeeded
        /\ outcome.ran = 2
        /\ tables[NameU] = [columns |-> ColumnsN, rows |-> <<<<IntegerValue(7)>>>>]

\* the statements of the pool that create, and those that drop, the table
CreatesOf(name) ==
    IF name = NameT THEN {CreateAB, CreateUpper}
    ELSE IF name = NameU THEN {CreateU}
    ELSE {}

DropsOf(name) ==
    IF name = NameT THEN {DropT, DropUpper, DropJunk}
    ELSE IF name = NameU THEN {DropU}
    ELSE {}

\* rows begins with the rows of before, in their order
IsPrefix(before, rows) ==
    /\ Len(before) <= Len(rows)
    /\ SubSeq(rows, 1, Len(before)) = before

\* C17: append-only: a call of exec that is neither a CREATE TABLE nor a
\* DROP TABLE of a table leaves the table in the catalog with the same
\* column list and with its former rows as a prefix of its rows: rows are
\* only appended, never modified, removed or reordered, whether the call
\* succeeds or fails.
C17_RowsAreOnlyAppended ==
    \A name \in DOMAIN prevTables :
        lastQuery \notin CreatesOf(name) \cup DropsOf(name) =>
            /\ name \in DOMAIN tables
            /\ tables[name].columns = prevTables[name].columns
            /\ IsPrefix(prevTables[name].rows, tables[name].rows)

\* C17 witness: an INSERT that fails midway has appended the row ["2.","w"]
\* to the rows [1,"x"], [2,"y"] of t and left table u with its rows
C17_Witness ==
    /\ RanOnT(InsertNestedShort, 2)
    /\ prevTables[NameT].rows = <<RowOneX, RowTwoY>>
    /\ tables[NameT].rows =
          <<RowOneX, RowTwoY, <<TextValue(<<"2", ".">>), TextValue(<<"w">>)>>>>
    /\ NameU \in DOMAIN tables
    /\ tables[NameU].rows # <<>>
    /\ tables[NameU] = prevTables[NameU]

ColumnsDup ==
    <<[name |-> <<"n">>, type |-> <<"I", "N", "T">>],
      [name |-> <<"N">>, type |-> <<"T", "E", "X", "T">>]>>

\* the last call ran on a catalog that held table u with these columns
RanOnU(query, columns) ==
    /\ lastQuery = query
    /\ NameU \in DOMAIN prevTables
    /\ prevTables[NameU].columns = columns

\* C18: SELECT * yields all columns in declared order; each name of an
\* explicit list resolves to the first declared column equal to it ignoring
\* case, the result columns are the listed names in selection order and
\* each result row holds the values at the resolved indices; a listed name
\* that matches no column fails with UnknownColumn, also when the table has
\* no rows or the WHERE leaves none, and an absent table with UnknownTable.
C18_ColumnResolution ==
    /\ RanOnT(SelectAll, 2) =>
          /\ Succeeded
          /\ Selected = [columns |-> <<<<"a">>, <<"b">>>>,
                         values |-> prevTables[NameT].rows]
    /\ RanOnU(SelectU, ColumnsDup) =>
          /\ Succeeded
          /\ Selected = [columns |-> <<<<"n">>, <<"N">>>>,
                         values |-> prevTables[NameU].rows]
    /\ RanOnT(SelectSwap, 2) =>
          /\ Succeeded
          /\ Selected = [columns |-> <<<<"b">>, <<"A">>>>,
                         values |-> [r \in 1..Len(prevTables[NameT].rows) |->
                                        <<prevTables[NameT].rows[r][2],
                                          prevTables[NameT].rows[r][1]>>]]
    /\ RanOnU(SelectDup, ColumnsDup) =>
          /\ Succeeded
          /\ Selected = [columns |-> <<<<"N">>, <<"n">>>>,
                         values |-> [r \in 1..Len(prevTables[NameU].rows) |->
                                        <<prevTables[NameU].rows[r][1],
                                          prevTables[NameU].rows[r][1]>>]]
    /\ RanOnT(SelectMissing, 2) =>
          /\ Failed("UnknownColumn")
          /\ outcome.error.column = <<"c">>
          /\ tables = prevTables
    /\ lastQuery \in {SelectAll, SelectSwap, SelectMissing}
          /\ NameT \notin DOMAIN prevTables =>
             Failed("UnknownTable") /\ outcome.error.table = NameT
    /\ lastQuery \in {SelectU, SelectDup} /\ NameU \notin DOMAIN prevTables =>
             Failed("UnknownTable") /\ outcome.error.table = NameU

\* C18 witness: SELECT N, n FROM u on u (n INT, N TEXT) holding two rows
\* [7,"s"] returns [7,7] twice: both names resolve to the first column
C18_Witness ==
    /\ RanOnU(SelectDup, ColumnsDup)
    /\ prevTables[NameU].rows =
          <<<<IntegerValue(7), TextValue(<<"s">>)>>,
            <<IntegerValue(7), TextValue(<<"s">>)>>>>
    /\ Selected.values =
          <<<<IntegerValue(7), IntegerValue(7)>>, <<IntegerValue(7), IntegerValue(7)>>>>

\* the unknown column is reported for a table without rows, and for a
\* table whose rows the WHERE all filters out
UnknownColumnWithoutRows ==
    /\ RanOnT(SelectMissing, 2)
    /\ Failed("UnknownColumn")
    /\ prevTables[NameT].rows = <<>>

UnknownColumnAllFilteredOut ==
    /\ RanOnT(SelectMissing, 2)
    /\ Failed("UnknownColumn")
    /\ prevTables[NameT].rows = <<RowOneX, RowTwoY>>

Digits == {"0", "1", "2", "3", "4", "5", "6", "7", "8", "9"}

\* one digit or more, and nothing else
AllDigits(s) == s # <<>> /\ \A i \in 1..Len(s) : s[i] \in Digits

\* the token without its leading minus sign
Unsigned(token) == IF token # <<>> /\ token[1] = "-" THEN Tail(token) ELSE token

Sign(token) == IF token # <<>> /\ token[1] = "-" THEN 0 - 1 ELSE 1

\* the places of a dot with digits or nothing before it and digits after it
DotPlaces(s) ==
    {p \in 1..Len(s) :
        /\ s[p] = "."
        /\ p = 1 \/ AllDigits(SubSeq(s, 1, p - 1))
        /\ AllDigits(SubSeq(s, p + 1, Len(s)))}

\* -?digits
MatchesInteger(token) == AllDigits(Unsigned(token))

\* -?digits*.digits+
MatchesDecimal(token) == DotPlaces(Unsigned(token)) # {}

RECURSIVE DecimalOf(_)
\* the number that a string of digits writes
DecimalOf(s) ==
    IF s = <<>> THEN 0
    ELSE 10 * DecimalOf(SubSeq(s, 1, Len(s) - 1))
         + (CHOOSE v \in 0..9 : DigitValue[s[Len(s)]] = v)

\* null in any letter case
IsNullWord(token) ==
    /\ Len(token) = 4
    /\ token[1] \in {"n", "N"} /\ token[2] \in {"u", "U"}
    /\ token[3] \in {"l", "L"} /\ token[4] \in {"l", "L"}

\* the scalar is the number that the decimal token writes: with f digits
\* after the dot, scalar * 10^f is the token's digits read without the dot
IsFloatOf(scalar, token) ==
    LET Reads(s, p) ==
            scalar.n * Pow10(Len(s) - p) =
                Sign(token) * scalar.d
                    * DecimalOf(SubSeq(s, 1, p - 1) \o SubSeq(s, p + 1, Len(s)))
    IN  /\ scalar.k = "number"
        /\ \A p \in DotPlaces(Unsigned(token)) : Reads(Unsigned(token), p)

\* the scalar that the inference order gives for the token
InferredFrom(scalar, token) ==
    IF IsNullWord(token) THEN scalar = [k |-> "null"]
    ELSE IF token = <<"t", "r", "u", "e">> THEN scalar = [k |-> "bool", b |-> TRUE]
    ELSE IF token = <<"f", "a", "l", "s", "e">> THEN scalar = [k |-> "bool", b |-> FALSE]
    ELSE IF MatchesInteger(token)
         THEN scalar = IntegerValue(Sign(token) * DecimalOf(Unsigned(token)))
    ELSE IF MatchesDecimal(token) THEN IsFloatOf(scalar, token)
    ELSE scalar = TextValue(token)

\* C19: scalar inference on a trimmed token: null in any case gives Null;
\* exactly true or false gives Bool; -?digits gives Integer; -?digits*.digits+
\* gives Float; every other token (TRUE, 1., 1e3, --1) gives Text unchanged.
\* 123 gives Integer 123, 1.5 gives Float 1.5, NULL and null give Null.
C19_ScalarInference ==
    outcome.status = "ok" =>
        /\ InferredFrom(outcome.result, lastQuery)
        /\ lastQuery = <<"1", "2", "3">> => outcome.result = IntegerValue(123)
        /\ lastQuery = <<"1", ".", "5">> =>
              outcome.result = [k |-> "number", n |-> 15, d |-> 10]
        /\ lastQuery \in {<<"n", "u", "l", "l">>, <<"N", "U", "L", "L">>} =>
              outcome.result = [k |-> "null"]
        /\ lastQuery \in {<<"T", "R", "U", "E">>, <<"1", ".">>, <<"1", "e", "3">>,
                          <<"-", "-", "1">>} =>
              outcome.result = TextValue(lastQuery)

\* C19 witness: the token -.19 is read as the Float -0.19
C19_Witness ==
    /\ lastQuery = <<"-", ".", "1", "9">>
    /\ outcome.status = "ok"
    /\ outcome.result = [k |-> "number", n |-> 0 - 19, d |-> 100]

\* the apostrophes of s that toggle the quote flag: those not immediately
\* preceded by a backslash
Toggles(s) == {j \in 1..Len(s) : s[j] = "'" /\ (j = 1 \/ s[j - 1] # "\\")}

\* the quote flag is set once s[i] has been read
Quoted(s, i) == Cardinality({j \in Toggles(s) : j <= i}) % 2 = 1

\* the parenthesis depth once s[i] has been read: only parentheses outside
\* quotes count
DepthAt(s, i) ==
    Cardinality({j \in 1..i : s[j] = "(" /\ ~Quoted(s, j)})
        - Cardinality({j \in 1..i : s[j] = ")" /\ ~Quoted(s, j)})

\* the commas that split the tuple list, and those that split a tuple
ListCommas(s) ==
    {i \in 1..Len(s) : s[i] = "," /\ ~Quoted(s, i) /\ DepthAt(s, i) = 0}

TupleCommas(s) == {i \in 1..Len(s) : s[i] = "," /\ ~Quoted(s, i)}

RECURSIVE RangesFrom(_, _, _)
\* the ranges <<first, last>> between the places P, from `from` up to n
RangesFrom(n, P, from) ==
    IF {p \in P : p >= from} = {} THEN <<<<from, n>>>>
    ELSE LET Cut(p) == <<<<from, p - 1>>>> \o RangesFrom(n, P, p + 1)
         IN  Cut(CHOOSE p \in P : p >= from /\ \A q \in P : q >= from => p <= q)

RECURSIVE CharsAt(_, _, _)
\* the characters of s[a..b] that are no toggling apostrophes
CharsAt(s, a, b) ==
    IF a > b THEN <<>>
    ELSE (IF a \in Toggles(s) THEN <<>> ELSE <<s[a]>>) \o CharsAt(s, a + 1, b)

\* the values of one tuple text: split at its commas outside quotes, the
\* toggling apostrophes removed; a last piece that is blank gives no value
ValuesOfTuple(t) ==
    LET Pieces(ranges) ==
            [k \in 1..Len(ranges) |-> Trim(CharsAt(t, ranges[k][1], ranges[k][2]))]
        Values(pieces) ==
            [k \in 1..(IF pieces[Len(pieces)] = <<>> THEN Len(pieces) - 1
                       ELSE Len(pieces)) |-> parseValue(pieces[k])]
    IN  Values(Pieces(RangesFrom(Len(t), TupleCommas(t), 1)))

\* the value sets of the text s: split at the commas outside quotes and
\* outside parentheses, blank pieces left out
ValueSetsOf(s) ==
    LET NotBlank(piece) == piece # <<>>
        Pieces(ranges) ==
            [k \in 1..Len(ranges) |-> Trim(Sub(s, ranges[k][1], ranges[k][2]))]
        Sets(pieces) ==
            [k \in 1..Len(pieces) |-> ValuesOfTuple(StripOuterParens(pieces[k]))]
    IN  Sets(SelectSeq(Pieces(RangesFrom(Len(s), ListCommas(s), 1)), NotBlank))

\* C20: quote handling in the tuple scanner: a comma inside an apostrophe-
\* quoted literal splits neither the tuple list nor the tuple, so 'a,a' is
\* the single Text a,a without its apostrophes; an apostrophe right after a
\* backslash toggles the quote flag in neither pass; the parenthesis depth
\* changes only on parentheses outside quotes.
C20_QuotesGuardCommasAndParens ==
    outcome.status = "ok" =>
        /\ outcome.result = ValueSetsOf(lastQuery)
        /\ lastQuery = <<"'", "a", ",", "a", "'">> =>
              outcome.result = <<<<TextValue(<<"a", ",", "a">>)>>>>
        /\ lastQuery = <<"'", "\\", "'", ",", "'">> =>
              outcome.result = <<<<TextValue(<<"\\", "'", ",">>)>>>>
        /\ lastQuery = <<"'", "(", "'", ",", "a">> =>
              outcome.result = <<<<TextValue(<<"(">>)>>, <<TextValue(<<"a">>)>>>>

\* C20 witness: ('a,a',a) is one tuple of the two values a,a and a
C20_Witness ==
    /\ lastQuery = <<"(", "'", "a", ",", "a", "'", ",", "a", ")">>
    /\ outcome.status = "ok"
    /\ outcome.result = <<<<TextValue(<<"a", ",", "a">>), TextValue(<<"a">>)>>>>

\* the statements of the pool by their leading keywords
SelectStatements ==
    {SelectAll, SelectUpper, SelectU, SelectB, WhereEq, WhereGt, WhereLt,
     WhereGe, WhereLe, WhereNe, WhereLtGt, WhereTrue, WhereUnknownColumn,
     SelectNoFrom, SelectReadCsv, SelectUrl, SelectGlued, SelectJunk,
     WhereQuoted}

CreateStatements == {CreateAB, CreateUpper, CreateU, CreateMalformed, CreateTwoSpaces}

DropStatements == {DropT, DropUpper, DropU, DropMalformed, DropJunk}

\* the INSERT statements of the pool whose target is the table
InsertsInto(name) ==
    IF name = NameT
    THEN {InsertPair, InsertOne, InsertShort, InsertNested, InsertNestedShort,
          InsertUpper}
    ELSE IF name = NameU THEN {InsertU}
    ELSE {}

InsertStatements == InsertsInto(NameT) \cup InsertsInto(NameU) \cup {InsertMalformed}

\* the catalog differs from the one before the call in the rows of this
\* table and in nothing else
ChangedOnlyRowsOf(name) ==
    /\ DOMAIN tables = DOMAIN prevTables
    /\ name \in DOMAIN prevTables
    /\ tables[name].columns = prevTables[name].columns
    /\ \A other \in DOMAIN prevTables \ {name} : tables[other] = prevTables[other]

\* C21: frame of failing and read-only statements: every SELECT, successful
\* or failing, leaves the whole catalog unchanged; a failing CREATE TABLE, a
\* failing DROP TABLE (SyntaxError or UnknownTable) and an INSERT failing
\* with SyntaxError or UnknownTable leave the whole catalog unchanged, so an
\* INSERT into an absent table does not create it; a failing statement that
\* changes the catalog is an INSERT failing with ColumnCountMismatch, and
\* it changes only the rows of its target table.
C21_FailingStatementsFrame ==
    /\ lastQuery \in SelectStatements => tables = prevTables
    /\ lastQuery \in CreateStatements /\ outcome.status = "error" =>
          tables = prevTables
    /\ lastQuery \in DropStatements /\ outcome.status = "error" =>
          /\ Failed("SyntaxError") \/ Failed("UnknownTable")
          /\ tables = prevTables
    /\ lastQuery \in InsertStatements
          /\ (Failed("SyntaxError") \/ Failed("UnknownTable")) =>
          tables = prevTables
    /\ outcome.status = "error" /\ tables # prevTables =>
          /\ Failed("ColumnCountMismatch")
          /\ \E name \in DOMAIN prevTables :
                lastQuery \in InsertsInto(name) /\ ChangedOnlyRowsOf(name)

\* C21 witness: an INSERT has failed with ColumnCountMismatch after it
\* pushed a row into the empty table t, and table u holds its row as before
C21_Witness ==
    /\ lastQuery = InsertNestedShort
    /\ Failed("ColumnCountMismatch")
    /\ prevTables[NameT].rows = <<>>
    /\ tables[NameT].rows # <<>>
    /\ NameU \in DOMAIN prevTables
    /\ prevTables[NameU].rows # <<>>
    /\ tables[NameU] = prevTables[NameU]

BIsTextX(row) == row[2] = TextValue(<<"x">>)

AIsIntegerOne(row) == row[1] = IntegerValue(1)

\* C22: the literal of a WHERE condition is read into the same scalar as
\* the same literal text in an INSERT tuple: rows stored by INSERT with the
\* quoted literal 'x' in column b hold the Text x, and SELECT * FROM t WHERE
\* b = 'x' returns exactly them; likewise WHERE a = 1 returns exactly the
\* rows stored with the literal 1 in column a.
C22_WhereLiteralReadsAsInsertLiteral ==
    /\ RanOnT(WhereQuoted, 2) => ReturnedRowsWhere(BIsTextX)
    /\ RanOnT(WhereEq, 2) => ReturnedRowsWhere(AIsIntegerOne)

\* the number literal of a WHERE condition reads as in an INSERT tuple
NumberLiteralRoundTrip ==
    RanOnT(WhereEq, 2) => ReturnedRowsWhere(AIsIntegerOne)

\* WHERE b = 'x' compares with the Text 'x' that keeps its apostrophes, a
\* text no INSERT of a quoted literal stores: no row is returned
QuotedWhereLiteralKeepsQuotes ==
    RanOnT(WhereQuoted, 2) =>
        /\ Succeeded
        /\ Selected.values = <<>>
        /\ parseValue(<<"'", "x", "'">>) = TextValue(<<"'", "x", "'">>)
        /\ parseValues(<<"'", "x", "'">>) = <<TextValue(<<"x">>)>>

\* the calls, and the statement indices, of the log in its order
LogCalls == [k \in 1..Len(worksheet.log) |-> worksheet.log[k].call]

LogIndices == [k \in 1..Len(worksheet.log) |-> worksheet.log[k].index]

\* C23: in fallback mode a batch run by executeQuery has no suspension
\* point between its first and its last statement, so the batches of
\* several execute events (button click, Ctrl+Enter) never interleave:
\* every statement of one batch is handed to SimpleSQL before any statement
\* of the next, in the order of the batch, and no invocation is left
\* standing at an await; while isInitialized is false executeQuery hands no
\* statement to any engine.
C23_FallbackBatchesNeverInterleave ==
    /\ worksheet.isFallback =>
          /\ worksheet.calls = {}
          /\ \A j \in 1..Len(worksheet.log) : \A k \in (j + 1)..Len(worksheet.log) :
                \/ LogCalls[j] < LogCalls[k]
                \/ LogCalls[j] = LogCalls[k] /\ LogIndices[j] < LogIndices[k]
    /\ ~worksheet.isInitialized => worksheet.log = <<>>

\* C23 witness: three execute events in fallback mode, the first of which
\* handed nothing to the engine; the two statements of the second batch
\* ran before the two of the third, which found the row of the second
C23_Witness ==
    /\ worksheet.isFallback
    /\ worksheet.events = 3
    /\ LogCalls = <<2, 2, 3, 3>>
    /\ LogIndices = <<1, 2, 1, 2>>
    /\ lastQuery = Trim(BatchText(<<InsertU, SelectU>>))
    /\ outcome.status = "ok"
    /\ Len(outcome.result[1].values) = 2

\* a step taken while isInitialized is false hands no statement to an engine
NoDispatchBeforeInitialized ==
    [][~worksheet.isInitialized => worksheet'.log = worksheet.log]_vars

\* in DuckDB mode, where executeQuery awaits every connection.query, the
\* batches of two execute events do interleave: this state is reachable
DuckDBBatchesInterleaved ==
    /\ ~worksheet.isFallback
    /\ LogCalls = <<1, 2, 1, 2>>

====
